---- MODULE Spec2Model ----
(***************************************************************************)
(* Verification model of the C++ exercise collection.                      *)
(*                                                                         *)
(* Every exercise is an independent program, so every exercise has its own *)
(* specification over its own group of variables; the variables of the     *)
(* other exercises stay at their initial values.                           *)
(*                                                                         *)
(*   SpecQueue / SpecQueueFair : ThreadSafeQueue<T> (exercise 3)           *)
(*   SpecUniquePtr             : UniquePtr<T[]>     (exercise 1)           *)
(*   SpecResource              : ResourceWrapper<R> (exercise 4)           *)
(***************************************************************************)
EXTENDS Integers, Sequences, FiniteSets, Bags, TLC

VARIABLES
    \* ---- ThreadSafeQueue<T> and its calling threads
    queue_,      \* std::queue<T> queue_: the items, front first
    mutex_,      \* std::mutex mutex_: the owning thread, or NoThread
    condition_,  \* std::condition_variable condition_: the blocked threads
    pc,          \* per thread: the statement it executes next
    item,        \* per thread: the T it carries (argument, local or T& out)
    ret,         \* per thread: the value the running call is returning
    snap,        \* per thread: queue_ as the last emptiness test saw it
    waited,      \* per thread: the running call blocked on condition_
    timedout,    \* per thread: wait_for's deadline has passed
    arrived,     \* per thread: an item was pushed while it waited, before expiry
    sized,       \* per thread: the value size() read
    pushed,      \* history: the items in the order queue_.push inserted them
    removed,     \* history: the items in the order the calls took them
    ub,          \* front()/pop() ran on an empty std::queue
    nextId,      \* the next fresh item value a producer passes to push
    opsLeft,     \* calls and spurious wake-ups that may still happen
    pushLeft,    \* push calls the threads may still start
    \* ---- UniquePtr<T> / UniquePtr<T[]> and the objects they point to
    uArray,      \* the program instantiates UniquePtr<T[]> (else UniquePtr<T>)
    uw,          \* per wrapper variable: its lifetime state, its ptr_ and the
                 \* constructor that built it
    uAlloc,      \* number of objects allocated so far (they are 1 .. uAlloc)
    uDel,        \* per object: how many times it was deleted
    uForm,       \* per object: the delete forms applied to it
    uRaw,        \* the pointers the caller holds after release()
    \* ---- ResourceWrapper<Resource> inside a test function of exercise 4
    rKind,       \* the Resource the program instantiates the wrapper with
    rw,          \* per wrapper variable: its lifetime state and its resource_
    rOrder,      \* the wrappers of the running scope, in construction order
    rAlloc,      \* number of Resource objects constructed so far
    rClosed,     \* per Resource object: how many times its destructor ran
    rNextFd,     \* FileHandle::next_fd_
    rInst,       \* Buffer::instance_count_
    rRaw,        \* the Resource pointers the caller holds after release()
    rLast,       \* history: the last wrapper operation of the block, the
                 \* variable it ran on, what resource_ held before it and
                 \* whether it returned (ok) or threw
    scope,       \* the try block: running, being left, or left
    exc,         \* the exception that is propagating or was caught
    \* ---- TrackedResource objects of the move-semantics analysis program
    tObj,        \* per variable: its lifetime state, its id_ and whether it
                 \* is declared const
    tOrder,      \* the live variables, in construction order
    tCount,      \* copy_count_, move_count_, copy_assign_count_, move_assign_count_
    tNextId,     \* TrackedResource::next_id_
    tLast,       \* history: the last statement: its kind, the form of its
                 \* source expression, the member function that ran, the
                 \* variables it wrote and read, and whether it printed a
                 \* "destructed" trace line
    \* ---- objects of the virtual-inheritance hierarchies (Base .. Final,
    \* ---- Animal .. AdvancedBat)
    vStack,      \* the declared objects, innermost scope last: the class of
                 \* the complete object, its name argument, its phase, the
                 \* constructor / destructor bodies still to run, those that
                 \* ran, and instance_count_ at the start and end of its
                 \* construction and at the start of its destruction
    vDone,       \* history: the object whose destruction finished last,
                 \* with instance_count_ at the end of its destruction
    vRejected,   \* the class of the last declaration that is ill-formed
    vCount,      \* Base::instance_count_ and Animal::instance_count_
    \* ---- ResourceManager objects of exercise 2 (main, Test 4)
    mObj,        \* per variable: its lifetime state, its size_ and its buffer_
    mOrder,      \* the live variables, in construction order
    mAlloc,      \* number of buffers allocated so far by new int[size]()
    mFreed,      \* per buffer: how many times delete[] ran on it
    \* ---- Buffer objects of exercise 4, used by value
    bObj,        \* per variable: its lifetime state, its size_ and its data_
    bOrder,      \* the live variables, in construction order
    bAlloc,      \* number of blocks allocated so far by new char[size_]
    bFreed,      \* per block: how many times delete[] ran on it
    bInst,       \* Buffer::instance_count_
    \* ---- FileHandle objects of exercise 4, used by value
    fObj,        \* per variable: its lifetime state and its fd_
    fOrder,      \* the live variables, in construction order
    fNextFd,     \* FileHandle::next_fd_
    fClosed,     \* per fd: how many times it was closed (by the destructor
                 \* or by a move assignment that overwrites it)
    \* ---- the threads of test_concurrent_stress (they share queue_)
    sPhase,      \* per thread: where it is in the thread function
    sJ,          \* per thread: the loop variable j of the producing loop
    sConsumed,   \* per thread: its local variable consumed
    total_produced,  \* std::atomic<int> total_produced
    total_consumed,  \* std::atomic<int> total_consumed
    \* ---- one FixedArray<T, N> of exercise 5
    aN,          \* the template argument N
    aBuilt,      \* the array has been constructed
    data_,       \* T data_[N]: the elements, index 0 first
    aList,       \* the initializer list the array was constructed from
    aOverrun,    \* a write went to an index outside data_
    aRes         \* the last element access: the accessor, its index, whether
                 \* it threw, the index of the element it refers to and
                 \* data_ before the call

qvars == <<queue_, mutex_, condition_, pc, item, ret, snap, waited, timedout,
           arrived, sized, pushed, removed, ub, nextId, opsLeft, pushLeft>>

uvars == <<uArray, uw, uAlloc, uDel, uForm, uRaw>>

rvars == <<rKind, rw, rOrder, rAlloc, rClosed, rNextFd, rInst, rRaw, rLast,
           scope, exc>>

tvars == <<tObj, tOrder, tCount, tNextId, tLast>>

vvars == <<vStack, vDone, vRejected, vCount>>

mvars == <<mObj, mOrder, mAlloc, mFreed>>

bvars == <<bObj, bOrder, bAlloc, bFreed, bInst>>

fvars == <<fObj, fOrder, fNextFd, fClosed>>

svars == <<sPhase, sJ, sConsumed, total_produced, total_consumed>>

avars == <<aN, aBuilt, data_, aList, aOverrun, aRes>>

vars == <<qvars, uvars, rvars, tvars, vvars, mvars, bvars, fvars, svars, avars>>

(***************************************************************************)
(* Bounds of the model.                                                    *)
(***************************************************************************)
MaxOps == 4
MaxOpsLive == 3
MaxPush == 2
MaxObj == 2
MaxRes == 2
MaxTrackedId == 2
MaxAssign == 1
MaxVObj == 2
MaxBuf == 2
MaxBlk == 2
MaxFd == 2
ItemsPerThread == 2
MaxN == 3
MaxLen == 4
MaxVal == 2

(***************************************************************************)
(* States of the exercises that a specification does not run               *)
(***************************************************************************)
USlots == {"a", "b", "c"}
UObjs == 1 .. MaxObj

\* exercise 1 before main() has declared any UniquePtr
UIdle ==
    /\ uArray = TRUE
    /\ uw = [s \in USlots |-> [st |-> "none", ptr |-> 0, by |-> "none"]]
    /\ uAlloc = 0
    /\ uDel = [o \in UObjs |-> 0]
    /\ uForm = [o \in UObjs |-> {}]
    /\ uRaw = {}

RSlots == {"file1", "file2"}
RObjs == 1 .. MaxRes

\* exercise 4 at the start of a test function
RIdle ==
    /\ rKind = "FileHandle"
    /\ rw = [s \in RSlots |-> [st |-> "none", res |-> 0]]
    /\ rOrder = <<>>
    /\ rAlloc = 0
    /\ rClosed = [r \in RObjs |-> 0]
    /\ rNextFd = 1
    /\ rInst = 0
    /\ rRaw = {}
    /\ rLast = [op |-> "none", slot |-> "none", held |-> 0, ok |-> TRUE]
    /\ scope = "body"
    /\ exc = "none"

TSlots == {"obj1", "obj2", "obj3"}

\* the value other.id_ = -1 gives a moved-from TrackedResource
MovedFrom == -1

TNoObj == [st |-> "none", id |-> 0, cst |-> FALSE]
TNoCount == [copy |-> 0, move |-> 0, copy_assign |-> 0, move_assign |-> 0]
TNoStmt == [kind |-> "none", form |-> "none", ran |-> "none",
            dst |-> "none", src |-> "none", line |-> FALSE]

\* the analysis program after its first resetCounters(), before any object
TIdle ==
    /\ tObj = [s \in TSlots |-> TNoObj]
    /\ tOrder = <<>>
    /\ tCount = TNoCount
    /\ tNextId = 1
    /\ tLast = TNoStmt

VNoObj == [cls |-> "none", name |-> <<>>, phase |-> "none", todo |-> <<>>,
           made |-> <<>>, gone |-> <<>>, cnt0 |-> 0, cnt1 |-> 0, cnt2 |-> 0,
           cnt3 |-> 0]

\* the inheritance programs before main() has declared any object
VIdle ==
    /\ vStack = <<>>
    /\ vDone = VNoObj
    /\ vRejected = "none"
    /\ vCount = [Base |-> 0, Animal |-> 0]

MSlots == {"rm1", "rm2", "rm3"}
MBufs == 1 .. MaxBuf

MNoObj == [st |-> "none", size |-> 0, buf |-> 0]

\* exercise 2 before Test 4 declares its first ResourceManager
MIdle ==
    /\ mObj = [s \in MSlots |-> MNoObj]
    /\ mOrder = <<>>
    /\ mAlloc = 0
    /\ mFreed = [x \in MBufs |-> 0]

BSlots == {"buf1", "buf2", "buf3"}
BBlks == 1 .. MaxBlk

BNoObj == [st |-> "none", size |-> 0, data |-> 0]

\* exercise 4 before any Buffer exists: instance_count_ = 0
BIdle ==
    /\ bObj = [s \in BSlots |-> BNoObj]
    /\ bOrder = <<>>
    /\ bAlloc = 0
    /\ bFreed = [x \in BBlks |-> 0]
    /\ bInst = 0

FSlots == {"fh1", "fh2"}
FFds == 1 .. MaxFd

\* FileHandle's fd_ when it owns no file
NoFd == -1

FNoObj == [st |-> "none", fd |-> NoFd]

\* exercise 4 before any FileHandle exists: next_fd_ = 1
FIdle ==
    /\ fObj = [s \in FSlots |-> FNoObj]
    /\ fOrder = <<>>
    /\ fNextFd = 1
    /\ fClosed = [x \in FFds |-> 0]

\* the threads test_concurrent_stress starts; their index i in its loop
StressThreads == {"t1", "t2"}
SIndex == [t1 |-> 0, t2 |-> 1, t3 |-> 2]

\* exercise 3 before test_concurrent_stress runs
SIdle ==
    /\ sPhase = [t \in {"t1", "t2", "t3"} |-> "off"]
    /\ sJ = [t \in {"t1", "t2", "t3"} |-> 0]
    /\ sConsumed = [t \in {"t1", "t2", "t3"} |-> 0]
    /\ total_produced = 0
    /\ total_consumed = 0

ANoAccess == [op |-> "none", index |-> 0, threw |-> FALSE, elem |-> 0,
              before |-> <<>>]

\* exercise 5 before a FixedArray is declared
AIdle ==
    /\ aN = 1
    /\ aBuilt = FALSE
    /\ data_ = <<>>
    /\ aList = <<>>
    /\ aOverrun = FALSE
    /\ aRes = ANoAccess

\* the exercises a specification of the queue, the owning wrappers,
\* TrackedResource or the inheritance programs leaves alone
RestIdle == MIdle /\ BIdle /\ FIdle /\ SIdle /\ AIdle

(***************************************************************************)
(* ThreadSafeQueue<T>                                                      *)
(***************************************************************************)
Threads == {"t1", "t2", "t3"}
NoThread == "none"
\* the value of a T nothing has been moved into yet (the caller's `int value;`)
NoItem == 0

Go(t, p) == pc' = [pc EXCEPT ![t] = p]

\* std::lock_guard / std::unique_lock constructor: blocks until the mutex is free
Lock(t) == mutex_ = NoThread /\ mutex_' = t
\* the lock's destructor
Unlock(t) == mutex_' = NoThread

\* FrontSet reading the newest item: queue_.back() written for queue_.front()
FrontSetBack(q) == IF q = <<>> THEN 0 .. MaxPush ELSE {q[Len(q)]}

\* queue_.front(): undefined on an empty queue (any value may be read)
FrontSet(q) == IF q = <<>> THEN 0 .. MaxPush ELSE {Head(q)}
\* queue_.pop(): undefined on an empty queue
PopOf(q) == IF q = <<>> THEN <<>> ELSE Tail(q)

qlocals == <<item, ret, snap, waited, timedout, arrived, sized>>
qshared == <<queue_, mutex_, condition_>>
qhist == <<pushed, removed, ub>>
qbudget == <<nextId, opsLeft, pushLeft>>

\* a call returns: its locals go out of scope
Leave(t) ==
    /\ Go(t, "idle")
    /\ item' = [item EXCEPT ![t] = NoItem]
    /\ ret' = [ret EXCEPT ![t] = "none"]
    /\ snap' = [snap EXCEPT ![t] = <<>>]
    /\ waited' = [waited EXCEPT ![t] = FALSE]
    /\ timedout' = [timedout EXCEPT ![t] = FALSE]
    /\ arrived' = [arrived EXCEPT ![t] = FALSE]
    /\ sized' = [sized EXCEPT ![t] = 0]

\* a thread starts a call of method m
Call(t, m) ==
    /\ pc[t] = "idle"
    /\ opsLeft > 0
    /\ opsLeft' = opsLeft - 1
    /\ Go(t, m)

(* ---- push(const T&) / push(T&&) ---- *)
PushCall(t) ==
    /\ Call(t, "push_lock")
    /\ pushLeft > 0
    /\ pushLeft' = pushLeft - 1
    /\ item' = [item EXCEPT ![t] = nextId]
    /\ nextId' = nextId + 1
    /\ UNCHANGED <<qshared, qhist, ret, snap, waited, timedout, arrived, sized>>

\* PushLock without the lock_guard: push touches queue_ unlocked
PushLockNone(t) ==
    /\ pc[t] = "push_lock"
    /\ Go(t, "push_push")
    /\ UNCHANGED <<qshared, qlocals, qhist, qbudget>>

PushLock(t) ==
    /\ pc[t] = "push_lock"
    /\ Lock(t)
    /\ Go(t, "push_push")
    /\ UNCHANGED <<queue_, condition_, qlocals, qhist, qbudget>>

PushPush(t) ==
    /\ pc[t] = "push_push"
    /\ queue_' = Append(queue_, item[t])
    /\ pushed' = Append(pushed, item[t])
    /\ arrived' = [u \in Threads |->
                      arrived[u] \/ (pc[u] = "pt_wait" /\ ~timedout[u])]
    /\ Go(t, "push_unlock")
    /\ UNCHANGED <<mutex_, condition_, item, ret, snap, waited, timedout, sized,
                   removed, ub, qbudget>>

PushUnlock(t) ==
    /\ pc[t] = "push_unlock"
    /\ Unlock(t)
    /\ Go(t, "push_notify")
    /\ UNCHANGED <<queue_, condition_, qlocals, qhist, qbudget>>

\* condition_.notify_one(): unblocks one of the blocked threads, if there is one
NotifyOne ==
    IF condition_ = {} THEN condition_' = condition_
    ELSE \E w \in condition_ : condition_' = condition_ \ {w}

\* PushNotify without condition_.notify_one()
PushNotifyNone(t) ==
    /\ pc[t] = "push_notify"
    /\ Leave(t)
    /\ UNCHANGED <<qshared, qhist, qbudget>>

PushNotify(t) ==
    /\ pc[t] = "push_notify"
    /\ NotifyOne
    /\ Leave(t)
    /\ UNCHANGED <<queue_, mutex_, qhist, qbudget>>

(* ---- T pop() ---- *)
PopCall(t) ==
    /\ Call(t, "pop_lock")
    /\ UNCHANGED <<qshared, qlocals, qhist, nextId, pushLeft>>

PopLock(t) ==
    /\ pc[t] = "pop_lock"
    /\ Lock(t)
    /\ Go(t, "pop_pred")
    /\ UNCHANGED <<queue_, condition_, qlocals, qhist, qbudget>>

\* condition_.wait(lock, pred): while (!pred()) wait(lock);
\* wait(lock) releases the mutex and blocks in one atomic step
PopPred(t) ==
    /\ pc[t] = "pop_pred"
    /\ IF queue_ # <<>>
       THEN /\ Go(t, "pop_front")
            /\ snap' = [snap EXCEPT ![t] = queue_]
            /\ UNCHANGED <<mutex_, condition_, waited>>
       ELSE /\ Go(t, "pop_wait")
            /\ Unlock(t)
            /\ condition_' = condition_ \cup {t}
            /\ waited' = [waited EXCEPT ![t] = TRUE]
            /\ UNCHANGED snap
    /\ UNCHANGED <<queue_, item, ret, timedout, arrived, sized, qhist, qbudget>>

\* PopWake for condition_.wait(lock) without the predicate: the woken thread
\* goes on to take an item without testing queue_.empty() again
PopWakeNoPred(t) ==
    /\ pc[t] = "pop_wait"
    /\ t \notin condition_
    /\ Lock(t)
    /\ Go(t, "pop_front")
    /\ UNCHANGED <<queue_, condition_, qlocals, qhist, qbudget>>

\* an unblocked waiter re-acquires the mutex before wait(lock) returns
PopWake(t) ==
    /\ pc[t] = "pop_wait"
    /\ t \notin condition_
    /\ Lock(t)
    /\ Go(t, "pop_pred")
    /\ UNCHANGED <<queue_, condition_, qlocals, qhist, qbudget>>

PopFront(t) ==
    /\ pc[t] = "pop_front"
    /\ \E v \in FrontSet(queue_) : item' = [item EXCEPT ![t] = v]
    /\ ub' = (ub \/ queue_ = <<>>)
    /\ Go(t, "pop_pop")
    /\ UNCHANGED <<qshared, ret, snap, waited, timedout, arrived, sized,
                   pushed, removed, qbudget>>

PopPop(t) ==
    /\ pc[t] = "pop_pop"
    /\ queue_' = PopOf(queue_)
    /\ ub' = (ub \/ queue_ = <<>>)
    /\ removed' = Append(removed, item[t])
    /\ ret' = [ret EXCEPT ![t] = "value"]
    /\ Go(t, "pop_unlock")
    /\ UNCHANGED <<mutex_, condition_, item, snap, waited, timedout, arrived,
                   sized, pushed, qbudget>>

PopUnlock(t) ==
    /\ pc[t] = "pop_unlock"
    /\ Unlock(t)
    /\ Leave(t)
    /\ UNCHANGED <<queue_, condition_, qhist, qbudget>>

\* a thread blocked on condition_ may wake without any notification
SpuriousWake(t) ==
    /\ t \in condition_
    /\ opsLeft > 0
    /\ opsLeft' = opsLeft - 1
    /\ condition_' = condition_ \ {t}
    /\ UNCHANGED <<queue_, mutex_, pc, qlocals, qhist, nextId, pushLeft>>

(* ---- bool try_pop(T& item) ---- *)
TryRefCall(t) ==
    /\ Call(t, "tryr_lock")
    /\ UNCHANGED <<qshared, qlocals, qhist, nextId, pushLeft>>

\* TryRefLock without the lock_guard
TryRefLockNone(t) ==
    /\ pc[t] = "tryr_lock"
    /\ Go(t, "tryr_empty")
    /\ UNCHANGED <<qshared, qlocals, qhist, qbudget>>

TryRefLock(t) ==
    /\ pc[t] = "tryr_lock"
    /\ Lock(t)
    /\ Go(t, "tryr_empty")
    /\ UNCHANGED <<queue_, condition_, qlocals, qhist, qbudget>>

TryRefEmpty(t) ==
    /\ pc[t] = "tryr_empty"
    /\ snap' = [snap EXCEPT ![t] = queue_]
    /\ IF queue_ = <<>>
       THEN /\ ret' = [ret EXCEPT ![t] = "false"]
            /\ Go(t, "tryr_unlock")
       ELSE /\ Go(t, "tryr_front")
            /\ UNCHANGED ret
    /\ UNCHANGED <<qshared, item, waited, timedout, arrived, sized, qhist, qbudget>>

TryRefFront(t) ==
    /\ pc[t] = "tryr_front"
    /\ \E v \in FrontSet(queue_) : item' = [item EXCEPT ![t] = v]
    /\ ub' = (ub \/ queue_ = <<>>)
    /\ Go(t, "tryr_pop")
    /\ UNCHANGED <<qshared, ret, snap, waited, timedout, arrived, sized,
                   pushed, removed, qbudget>>

\* TryRefPop without queue_.pop(): the item is handed out and stays queued
TryRefPopKeep(t) ==
    /\ pc[t] = "tryr_pop"
    /\ removed' = Append(removed, item[t])
    /\ ret' = [ret EXCEPT ![t] = "true"]
    /\ Go(t, "tryr_unlock")
    /\ UNCHANGED <<qshared, item, snap, waited, timedout, arrived, sized,
                   pushed, ub, qbudget>>

TryRefPop(t) ==
    /\ pc[t] = "tryr_pop"
    /\ queue_' = PopOf(queue_)
    /\ ub' = (ub \/ queue_ = <<>>)
    /\ removed' = Append(removed, item[t])
    /\ ret' = [ret EXCEPT ![t] = "true"]
    /\ Go(t, "tryr_unlock")
    /\ UNCHANGED <<mutex_, condition_, item, snap, waited, timedout, arrived,
                   sized, pushed, qbudget>>

TryRefUnlock(t) ==
    /\ pc[t] = "tryr_unlock"
    /\ Unlock(t)
    /\ Leave(t)
    /\ UNCHANGED <<queue_, condition_, qhist, qbudget>>

(* ---- std::optional<T> try_pop() ---- *)
TryOptCall(t) ==
    /\ Call(t, "tryo_lock")
    /\ UNCHANGED <<qshared, qlocals, qhist, nextId, pushLeft>>

TryOptLock(t) ==
    /\ pc[t] = "tryo_lock"
    /\ Lock(t)
    /\ Go(t, "tryo_empty")
    /\ UNCHANGED <<queue_, condition_, qlocals, qhist, qbudget>>

TryOptEmpty(t) ==
    /\ pc[t] = "tryo_empty"
    /\ snap' = [snap EXCEPT ![t] = queue_]
    /\ IF queue_ = <<>>
       THEN /\ ret' = [ret EXCEPT ![t] = "nullopt"]
            /\ Go(t, "tryo_unlock")
       ELSE /\ Go(t, "tryo_front")
            /\ UNCHANGED ret
    /\ UNCHANGED <<qshared, item, waited, timedout, arrived, sized, qhist, qbudget>>

TryOptFront(t) ==
    /\ pc[t] = "tryo_front"
    /\ \E v \in FrontSet(queue_) : item' = [item EXCEPT ![t] = v]
    /\ ub' = (ub \/ queue_ = <<>>)
    /\ Go(t, "tryo_pop")
    /\ UNCHANGED <<qshared, ret, snap, waited, timedout, arrived, sized,
                   pushed, removed, qbudget>>

TryOptPop(t) ==
    /\ pc[t] = "tryo_pop"
    /\ queue_' = PopOf(queue_)
    /\ ub' = (ub \/ queue_ = <<>>)
    /\ removed' = Append(removed, item[t])
    /\ ret' = [ret EXCEPT ![t] = "value"]
    /\ Go(t, "tryo_unlock")
    /\ UNCHANGED <<mutex_, condition_, item, snap, waited, timedout, arrived,
                   sized, pushed, qbudget>>

TryOptUnlock(t) ==
    /\ pc[t] = "tryo_unlock"
    /\ Unlock(t)
    /\ Leave(t)
    /\ UNCHANGED <<queue_, condition_, qhist, qbudget>>

(* ---- std::optional<T> pop_timeout(timeout) ---- *)
PtCall(t) ==
    /\ Call(t, "pt_lock")
    /\ UNCHANGED <<qshared, qlocals, qhist, nextId, pushLeft>>

PtLock(t) ==
    /\ pc[t] = "pt_lock"
    /\ Lock(t)
    /\ Go(t, "pt_pred")
    /\ UNCHANGED <<queue_, condition_, qlocals, qhist, qbudget>>

\* PtPred for wait_for(lock, timeout) without the predicate: on expiry the call
\* gives up without looking at queue_ again
PtPredNoRecheck(t) ==
    /\ pc[t] = "pt_pred"
    /\ IF timedout[t]
       THEN /\ ret' = [ret EXCEPT ![t] = "nullopt"]
            /\ Go(t, "pt_unlock")
            /\ UNCHANGED <<mutex_, condition_, waited, snap>>
       ELSE IF queue_ # <<>>
            THEN /\ Go(t, "pt_front")
                 /\ snap' = [snap EXCEPT ![t] = queue_]
                 /\ UNCHANGED <<mutex_, condition_, waited, ret>>
            ELSE /\ Go(t, "pt_wait")
                 /\ Unlock(t)
                 /\ condition_' = condition_ \cup {t}
                 /\ waited' = [waited EXCEPT ![t] = TRUE]
                 /\ snap' = [snap EXCEPT ![t] = queue_]
                 /\ UNCHANGED ret
    /\ UNCHANGED <<queue_, item, timedout, arrived, sized, qhist, qbudget>>

\* condition_.wait_for(lock, timeout, pred):
\*   while (!pred()) if (wait_until(lock, deadline) == timeout) return pred();
\*   return true;
PtPred(t) ==
    /\ pc[t] = "pt_pred"
    /\ snap' = [snap EXCEPT ![t] = queue_]
    /\ IF queue_ # <<>>
       THEN /\ Go(t, "pt_front")
            /\ UNCHANGED <<mutex_, condition_, waited, ret>>
       ELSE IF timedout[t]
            THEN /\ ret' = [ret EXCEPT ![t] = "nullopt"]
                 /\ Go(t, "pt_unlock")
                 /\ UNCHANGED <<mutex_, condition_, waited>>
            ELSE /\ Go(t, "pt_wait")
                 /\ Unlock(t)
                 /\ condition_' = condition_ \cup {t}
                 /\ waited' = [waited EXCEPT ![t] = TRUE]
                 /\ UNCHANGED ret
    /\ UNCHANGED <<queue_, item, timedout, arrived, sized, qhist, qbudget>>

\* the deadline passes while the thread is blocked
PtTimeout(t) ==
    /\ pc[t] = "pt_wait"
    /\ t \in condition_
    /\ condition_' = condition_ \ {t}
    /\ timedout' = [timedout EXCEPT ![t] = TRUE]
    /\ UNCHANGED <<queue_, mutex_, pc, item, ret, snap, waited, arrived, sized,
                   qhist, qbudget>>

PtWake(t) ==
    /\ pc[t] = "pt_wait"
    /\ t \notin condition_
    /\ Lock(t)
    /\ Go(t, "pt_pred")
    /\ UNCHANGED <<queue_, condition_, qlocals, qhist, qbudget>>

PtFront(t) ==
    /\ pc[t] = "pt_front"
    /\ \E v \in FrontSet(queue_) : item' = [item EXCEPT ![t] = v]
    /\ ub' = (ub \/ queue_ = <<>>)
    /\ Go(t, "pt_pop")
    /\ UNCHANGED <<qshared, ret, snap, waited, timedout, arrived, sized,
                   pushed, removed, qbudget>>

PtPop(t) ==
    /\ pc[t] = "pt_pop"
    /\ queue_' = PopOf(queue_)
    /\ ub' = (ub \/ queue_ = <<>>)
    /\ removed' = Append(removed, item[t])
    /\ ret' = [ret EXCEPT ![t] = "value"]
    /\ Go(t, "pt_unlock")
    /\ UNCHANGED <<mutex_, condition_, item, snap, waited, timedout, arrived,
                   sized, pushed, qbudget>>

PtUnlock(t) ==
    /\ pc[t] = "pt_unlock"
    /\ Unlock(t)
    /\ Leave(t)
    /\ UNCHANGED <<queue_, condition_, qhist, qbudget>>

(* ---- bool empty() const ---- *)
EmptyCall(t) ==
    /\ Call(t, "empty_lock")
    /\ UNCHANGED <<qshared, qlocals, qhist, nextId, pushLeft>>

EmptyLock(t) ==
    /\ pc[t] = "empty_lock"
    /\ Lock(t)
    /\ Go(t, "empty_read")
    /\ UNCHANGED <<queue_, condition_, qlocals, qhist, qbudget>>

EmptyRead(t) ==
    /\ pc[t] = "empty_read"
    /\ ret' = [ret EXCEPT ![t] = IF queue_ = <<>> THEN "true" ELSE "false"]
    /\ Go(t, "empty_unlock")
    /\ UNCHANGED <<qshared, item, snap, waited, timedout, arrived, sized,
                   qhist, qbudget>>

EmptyUnlock(t) ==
    /\ pc[t] = "empty_unlock"
    /\ Unlock(t)
    /\ Leave(t)
    /\ UNCHANGED <<queue_, condition_, qhist, qbudget>>

(* ---- size_t size() const ---- *)
SizeCall(t) ==
    /\ Call(t, "size_lock")
    /\ UNCHANGED <<qshared, qlocals, qhist, nextId, pushLeft>>

\* SizeLock without the lock_guard: size() reads queue_.size() unlocked
SizeLockNone(t) ==
    /\ pc[t] = "size_lock"
    /\ Go(t, "size_read")
    /\ UNCHANGED <<qshared, qlocals, qhist, qbudget>>

SizeLock(t) ==
    /\ pc[t] = "size_lock"
    /\ Lock(t)
    /\ Go(t, "size_read")
    /\ UNCHANGED <<queue_, condition_, qlocals, qhist, qbudget>>

SizeRead(t) ==
    /\ pc[t] = "size_read"
    /\ sized' = [sized EXCEPT ![t] = Len(queue_)]
    /\ ret' = [ret EXCEPT ![t] = "size"]
    /\ Go(t, "size_unlock")
    /\ UNCHANGED <<qshared, item, snap, waited, timedout, arrived, qhist, qbudget>>

SizeUnlock(t) ==
    /\ pc[t] = "size_unlock"
    /\ Unlock(t)
    /\ Leave(t)
    /\ UNCHANGED <<queue_, condition_, qhist, qbudget>>

(* ---- void notify_all() ---- *)
NotifyAll(t) ==
    /\ pc[t] = "idle"
    /\ opsLeft > 0
    /\ opsLeft' = opsLeft - 1
    /\ condition_' = {}
    /\ UNCHANGED <<queue_, mutex_, pc, qlocals, qhist, nextId, pushLeft>>

(* ---- the threads ---- *)
\* the steps of a call that is under way, the deadline of a timed wait included
Continue(t) ==
    \/ PushLock(t) \/ PushPush(t) \/ PushUnlock(t) \/ PushNotify(t)
    \/ PopLock(t) \/ PopPred(t) \/ PopWake(t) \/ PopFront(t) \/ PopPop(t)
    \/ PopUnlock(t)
    \/ TryRefLock(t) \/ TryRefEmpty(t) \/ TryRefFront(t) \/ TryRefPop(t)
    \/ TryRefUnlock(t)
    \/ TryOptLock(t) \/ TryOptEmpty(t) \/ TryOptFront(t) \/ TryOptPop(t)
    \/ TryOptUnlock(t)
    \/ PtLock(t) \/ PtPred(t) \/ PtTimeout(t) \/ PtWake(t) \/ PtFront(t)
    \/ PtPop(t) \/ PtUnlock(t)
    \/ EmptyLock(t) \/ EmptyRead(t) \/ EmptyUnlock(t)
    \/ SizeLock(t) \/ SizeRead(t) \/ SizeUnlock(t)

Start(t) ==
    \/ PushCall(t) \/ PopCall(t) \/ TryRefCall(t) \/ TryOptCall(t)
    \/ PtCall(t) \/ EmptyCall(t) \/ SizeCall(t) \/ NotifyAll(t)

\* a default-constructed queue and threads that have not called it yet
QIdle ==
    /\ queue_ = <<>>
    /\ mutex_ = NoThread
    /\ condition_ = {}
    /\ pc = [t \in Threads |-> "idle"]
    /\ item = [t \in Threads |-> NoItem]
    /\ ret = [t \in Threads |-> "none"]
    /\ snap = [t \in Threads |-> <<>>]
    /\ waited = [t \in Threads |-> FALSE]
    /\ timedout = [t \in Threads |-> FALSE]
    /\ arrived = [t \in Threads |-> FALSE]
    /\ sized = [t \in Threads |-> 0]
    /\ pushed = <<>>
    /\ removed = <<>>
    /\ ub = FALSE
    /\ nextId = 1
    /\ opsLeft \in {MaxOps, MaxOpsLive}
    /\ pushLeft = MaxPush

QInit == QIdle /\ opsLeft = MaxOps /\ UIdle /\ RIdle /\ TIdle /\ VIdle
         /\ RestIdle

\* the same start with the smaller budget the liveness checks run under
QInitLive == QIdle /\ opsLeft = MaxOpsLive /\ UIdle /\ RIdle /\ TIdle /\ VIdle
             /\ RestIdle

QNext ==
    /\ \E t \in Threads : Start(t) \/ Continue(t) \/ SpuriousWake(t)
    /\ UNCHANGED <<uvars, rvars, tvars, vvars>>
    /\ UNCHANGED <<mvars, bvars, fvars, svars, avars>>

SpecQueue == QInit /\ [][QNext]_vars

\* every thread that is inside a call keeps running (the scheduler is fair), and
\* a deadline eventually passes; nothing forces a spurious wake-up or a new call
SpecQueueFair ==
    QInitLive /\ [][QNext]_vars /\ \A t \in Threads : WF_qvars(Continue(t))

(***************************************************************************)
(* test_concurrent_stress: every thread pushes items_per_thread items and  *)
(* then calls try_pop(value) until it has removed as many itself.  The     *)
(* calls run the statements of push and try_pop above.                     *)
(***************************************************************************)
sqvars == <<qvars, svars>>

SPhase(t, p) == sPhase' = [sPhase EXCEPT ![t] = p]

\* for (j ...; j < items_per_thread; ...) queue.push(i * items_per_thread + j)
SPushCall(t) ==
    /\ sPhase[t] = "produce"
    /\ pc[t] = "idle"
    /\ Go(t, "push_lock")
    /\ item' = [item EXCEPT ![t] = SIndex[t] * ItemsPerThread + sJ[t]]
    /\ SPhase(t, "pushing")
    /\ UNCHANGED <<qshared, qhist, qbudget, ret, snap, waited, timedout,
                   arrived, sized>>
    /\ UNCHANGED <<sJ, sConsumed, total_produced, total_consumed>>

\* the statements of push up to the unlock
SPushStep(t) ==
    /\ sPhase[t] = "pushing"
    /\ PushLock(t) \/ PushPush(t) \/ PushUnlock(t)
    /\ UNCHANGED svars

\* push returns after notify_one
SPushReturn(t) ==
    /\ sPhase[t] = "pushing"
    /\ PushNotify(t)
    /\ SPhase(t, "count_produced")
    /\ UNCHANGED <<sJ, sConsumed, total_produced, total_consumed>>

\* total_produced.fetch_add(1); ++j and the loop test; after the last item
\* the thread goes on to consume (int consumed = 0)
SCountProduced(t) ==
    /\ sPhase[t] = "count_produced"
    /\ total_produced' = total_produced + 1
    /\ sJ' = [sJ EXCEPT ![t] = sJ[t] + 1]
    /\ SPhase(t, IF sJ[t] + 1 < ItemsPerThread THEN "produce" ELSE "consume")
    /\ UNCHANGED <<qvars, sConsumed, total_consumed>>

\* while (consumed < items_per_thread) { int value; queue.try_pop(value) ...
STryPopCall(t) ==
    /\ sPhase[t] = "consume"
    /\ pc[t] = "idle"
    /\ Go(t, "tryr_lock")
    /\ SPhase(t, "popping")
    /\ UNCHANGED <<qshared, qlocals, qhist, qbudget>>
    /\ UNCHANGED <<sJ, sConsumed, total_produced, total_consumed>>

\* the statements of try_pop(T&) up to the unlock
STryPopStep(t) ==
    /\ sPhase[t] = "popping"
    /\ TryRefLock(t) \/ TryRefEmpty(t) \/ TryRefFront(t) \/ TryRefPop(t)
    /\ UNCHANGED svars

\* try_pop returns: on true consumed++, on false std::this_thread::yield()
\* and the loop calls it again
STryPopReturn(t) ==
    /\ sPhase[t] = "popping"
    /\ TryRefUnlock(t)
    /\ IF ret[t] = "true"
       THEN /\ sConsumed' = [sConsumed EXCEPT ![t] = sConsumed[t] + 1]
            /\ SPhase(t, "count_consumed")
       ELSE /\ SPhase(t, "consume")
            /\ UNCHANGED sConsumed
    /\ UNCHANGED <<sJ, total_produced, total_consumed>>

\* total_consumed.fetch_add(1) and the loop test; the thread function
\* returns when consumed reaches items_per_thread
SCountConsumed(t) ==
    /\ sPhase[t] = "count_consumed"
    /\ total_consumed' = total_consumed + 1
    /\ SPhase(t, IF sConsumed[t] < ItemsPerThread THEN "consume" ELSE "done")
    /\ UNCHANGED <<qvars, sJ, sConsumed, total_produced>>

\* one step of the thread function
SThread(t) ==
    \/ SPushCall(t) \/ SPushStep(t) \/ SPushReturn(t) \/ SCountProduced(t)
    \/ STryPopCall(t) \/ STryPopStep(t) \/ STryPopReturn(t)
    \/ SCountConsumed(t)

\* threads.emplace_back(...) has started the threads
SStart ==
    /\ sPhase = [t \in Threads |-> IF t \in StressThreads THEN "produce" ELSE "off"]
    /\ sJ = [t \in Threads |-> 0]
    /\ sConsumed = [t \in Threads |-> 0]
    /\ total_produced = 0
    /\ total_consumed = 0

SInit ==
    /\ QIdle /\ opsLeft = MaxOps /\ UIdle /\ RIdle /\ TIdle /\ VIdle
    /\ MIdle /\ BIdle /\ FIdle /\ SStart /\ AIdle

SNext ==
    /\ \E t \in StressThreads : SThread(t)
    /\ UNCHANGED <<uvars, rvars, tvars, vvars>>
    /\ UNCHANGED <<mvars, bvars, fvars, avars>>

\* the scheduler is fair: a thread that can take a step eventually does
SpecStress ==
    SInit /\ [][SNext]_vars /\ \A t \in StressThreads : WF_sqvars(SThread(t))

(***************************************************************************)
(* UniquePtr<T> and UniquePtr<T[]>                                         *)
(*                                                                         *)
(* The two templates differ only in the delete form they apply.  A wrapper *)
(* variable is "none" before its declaration, "live" while in scope and    *)
(* "dead" after its destructor ran; ptr is the object it points to.        *)
(***************************************************************************)
\* nullptr
NullPtr == 0

\* the form the instantiated template deletes with
DeleteForm == IF uArray THEN "delete[]" ELSE "delete"

\* delete / delete[] applied to the objects ds (deleting twice is undefined;
\* the count stops at 2)
UDelete(ds) ==
    /\ uDel' = [o \in UObjs |->
                  IF o \in ds /\ uDel[o] < 2 THEN uDel[o] + 1 ELSE uDel[o]]
    /\ uForm' = [o \in UObjs |->
                  IF o \in ds THEN uForm[o] \cup {DeleteForm} ELSE uForm[o]]

\* UReleased for a release() that returns ptr_ without clearing it
UReleasedKeep(w) == w

\* release(): the wrapper afterwards (the owned pointer is returned)
UReleased(w) == [w EXCEPT !.ptr = NullPtr]

\* UResetDeletes for a reset without the test ptr_ != ptr
UResetDeletesAlways(w, p) == IF w.ptr # NullPtr THEN {w.ptr} ELSE {}

\* reset(p): the objects it deletes, and the wrapper afterwards
UResetDeletes(w, p) == IF w.ptr # p /\ w.ptr # NullPtr THEN {w.ptr} ELSE {}
UResetTo(w, p) == IF w.ptr # p THEN [w EXCEPT !.ptr = p] ELSE w

\* ~UniquePtr(): the objects it deletes
UDtorDeletes(w) == IF w.ptr # NullPtr THEN {w.ptr} ELSE {}

ULive(s) == uw[s].st = "live"

\* explicit UniquePtr(pointer ptr = nullptr), default argument
UConstructNull(s) ==
    /\ uw[s].st = "none"
    /\ uw' = [uw EXCEPT ![s] = [st |-> "live", ptr |-> NullPtr, by |-> "null"]]
    /\ UNCHANGED <<uArray, uAlloc, uDel, uForm, uRaw>>

\* explicit UniquePtr(pointer ptr) with a fresh new T / new T[n]
UConstructNew(s) ==
    /\ uw[s].st = "none"
    /\ uAlloc < MaxObj
    /\ uAlloc' = uAlloc + 1
    /\ uw' = [uw EXCEPT ![s] = [st |-> "live", ptr |-> uAlloc + 1, by |-> "new"]]
    /\ UNCHANGED <<uArray, uDel, uForm, uRaw>>

\* explicit UniquePtr(pointer ptr) with a pointer obtained from release()
UConstructRaw(s, r) ==
    /\ uw[s].st = "none"
    /\ r \in uRaw
    /\ uRaw' = uRaw \ {r}
    /\ uw' = [uw EXCEPT ![s] = [st |-> "live", ptr |-> r, by |-> "raw"]]
    /\ UNCHANGED <<uArray, uAlloc, uDel, uForm>>

\* UMoveConstruct copying the pointer: ptr_(other.ptr_) for ptr_(other.release())
UMoveConstructCopy(s, o) ==
    /\ uw[s].st = "none"
    /\ ULive(o)
    /\ uw' = [uw EXCEPT ![s] = [st |-> "live", ptr |-> uw[o].ptr, by |-> "move"]]
    /\ UNCHANGED <<uArray, uAlloc, uDel, uForm, uRaw>>

\* UniquePtr(UniquePtr&& other) : ptr_(other.release())
UMoveConstruct(s, o) ==
    /\ uw[s].st = "none"
    /\ ULive(o)
    /\ uw' = [uw EXCEPT ![s] = [st |-> "live", ptr |-> uw[o].ptr, by |-> "move"],
                        ![o] = UReleased(uw[o])]
    /\ UNCHANGED <<uArray, uAlloc, uDel, uForm, uRaw>>

\* UMoveAssign taking the pointer with get(): reset(other.get()) for
\* reset(other.release())
UMoveAssignGet(s, o) ==
    /\ ULive(s)
    /\ ULive(o)
    /\ IF s # o
       THEN /\ UDelete(UResetDeletes(uw[s], uw[o].ptr))
            /\ uw' = [uw EXCEPT ![s] = UResetTo(uw[s], uw[o].ptr)]
       ELSE UNCHANGED <<uw, uDel, uForm>>
    /\ UNCHANGED <<uArray, uAlloc, uRaw>>

\* operator=(UniquePtr&& other): if (this != &other) reset(other.release())
UMoveAssign(s, o) ==
    /\ ULive(s)
    /\ ULive(o)
    /\ IF s # o
       THEN /\ UDelete(UResetDeletes(uw[s], uw[o].ptr))
            /\ uw' = [uw EXCEPT ![s] = UResetTo(uw[s], uw[o].ptr),
                                ![o] = UReleased(uw[o])]
       ELSE UNCHANGED <<uw, uDel, uForm>>
    /\ UNCHANGED <<uArray, uAlloc, uRaw>>

\* reset(): the default argument nullptr
UResetNull(s) ==
    /\ ULive(s)
    /\ UDelete(UResetDeletes(uw[s], NullPtr))
    /\ uw' = [uw EXCEPT ![s] = UResetTo(uw[s], NullPtr)]
    /\ UNCHANGED <<uArray, uAlloc, uRaw>>

\* reset(new T) / reset(new T[n])
UResetNew(s) ==
    /\ ULive(s)
    /\ uAlloc < MaxObj
    /\ uAlloc' = uAlloc + 1
    /\ UDelete(UResetDeletes(uw[s], uAlloc + 1))
    /\ uw' = [uw EXCEPT ![s] = UResetTo(uw[s], uAlloc + 1)]
    /\ UNCHANGED <<uArray, uRaw>>

\* reset(get()): the pointer already owned
UResetSelf(s) ==
    /\ ULive(s)
    /\ UDelete(UResetDeletes(uw[s], uw[s].ptr))
    /\ uw' = [uw EXCEPT ![s] = UResetTo(uw[s], uw[s].ptr)]
    /\ UNCHANGED <<uArray, uAlloc, uRaw>>

\* reset(raw) with a pointer obtained from release()
UResetRaw(s, r) ==
    /\ ULive(s)
    /\ r \in uRaw
    /\ uRaw' = uRaw \ {r}
    /\ UDelete(UResetDeletes(uw[s], r))
    /\ uw' = [uw EXCEPT ![s] = UResetTo(uw[s], r)]
    /\ UNCHANGED <<uArray, uAlloc>>

\* explicit operator bool(): ptr_ != nullptr
UBool(s) == uw[s].ptr # NullPtr

\* URelease for a release() written as reset(): the object is deleted and
\* nothing is handed to the caller
UReleaseAsReset(s) ==
    /\ ULive(s)
    /\ UDelete(UResetDeletes(uw[s], NullPtr))
    /\ uw' = [uw EXCEPT ![s] = UResetTo(uw[s], NullPtr)]
    /\ UNCHANGED <<uArray, uAlloc, uRaw>>

\* release(): the caller takes the pointer
URelease(s) ==
    /\ ULive(s)
    /\ uw' = [uw EXCEPT ![s] = UReleased(uw[s])]
    /\ uRaw' = IF uw[s].ptr = NullPtr THEN uRaw ELSE uRaw \cup {uw[s].ptr}
    /\ UNCHANGED <<uArray, uAlloc, uDel, uForm>>

\* ~UniquePtr(): the variable leaves its scope
UDestroy(s) ==
    /\ ULive(s)
    /\ UDelete(UDtorDeletes(uw[s]))
    /\ uw' = [uw EXCEPT ![s].st = "dead"]
    /\ UNCHANGED <<uArray, uAlloc, uRaw>>

\* the caller's own delete / delete[] of a released pointer
UCallerDelete(r) ==
    /\ r \in uRaw
    /\ uRaw' = uRaw \ {r}
    /\ UDelete({r})
    /\ UNCHANGED <<uArray, uw, uAlloc>>

\* main() of exercise 1 has declared no UniquePtr yet; the program works with
\* one of the two templates
UStart ==
    /\ uArray \in BOOLEAN
    /\ uw = [s \in USlots |-> [st |-> "none", ptr |-> NullPtr, by |-> "none"]]
    /\ uAlloc = 0
    /\ uDel = [o \in UObjs |-> 0]
    /\ uForm = [o \in UObjs |-> {}]
    /\ uRaw = {}

UInit == QIdle /\ opsLeft = MaxOps /\ UStart /\ RIdle /\ TIdle /\ VIdle
         /\ RestIdle

UNext ==
    /\ \/ \E s \in USlots :
             \/ UConstructNull(s) \/ UConstructNew(s)
             \/ UResetNull(s) \/ UResetNew(s) \/ UResetSelf(s)
             \/ URelease(s) \/ UDestroy(s)
       \/ \E s \in USlots, o \in USlots : UMoveConstruct(s, o) \/ UMoveAssign(s, o)
       \/ \E s \in USlots, r \in UObjs : UConstructRaw(s, r) \/ UResetRaw(s, r)
       \/ \E r \in UObjs : UCallerDelete(r)
    /\ UNCHANGED <<qvars, rvars, tvars, vvars>>
    /\ UNCHANGED <<mvars, bvars, fvars, svars, avars>>

SpecUniquePtr == UInit /\ [][UNext]_vars

(***************************************************************************)
(* ResourceWrapper<Resource> over FileHandle / Buffer                      *)
(*                                                                         *)
(* One test function: a block whose local wrappers are destroyed, in       *)
(* reverse order of construction, when control leaves it, normally or by   *)
(* an exception.  res is the Resource object resource_ points to.          *)
(***************************************************************************)
\* an empty std::unique_ptr<Resource>
NoRes == 0

RLive(s) == rw[s].st = "live"

\* ~Resource() runs on the objects ds: FileHandle closes its fd, Buffer frees
\* its data and decrements instance_count_
RClose(ds) ==
    /\ rClosed' = [r \in RObjs |->
                     IF r \in ds /\ rClosed[r] < 2 THEN rClosed[r] + 1
                     ELSE rClosed[r]]
    /\ rInst' = IF rKind = "Buffer" THEN rInst - Cardinality(ds) ELSE rInst

\* std::make_unique<Resource>(args) with valid arguments: the counters after
\* FileHandle(filename) (fd_ = next_fd_++) or Buffer(size) (++instance_count_)
RAcquireFd == IF rKind = "FileHandle" THEN rNextFd + 1 ELSE rNextFd
RAcquireInst == IF rKind = "Buffer" THEN rInst + 1 ELSE rInst

\* resource_.reset(): the objects destroyed
RResetCloses(w) == IF w.res # NoRes THEN {w.res} ELSE {}

\* RDtorCloses for a destructor that gives the pointer up without destroying
\* the Resource: resource_.release() written for resource_.reset()
RDtorClosesNone(w) == {}

\* ~ResourceWrapper(): resource_.reset()
RDtorCloses(w) == RResetCloses(w)

\* history of the operation that just ran on wrapper variable s
RNote(o, s, k) ==
    rLast' = [op |-> o, slot |-> s,
              held |-> IF rw[s].st = "live" THEN rw[s].res ELSE NoRes,
              ok |-> k]

\* an exception leaves the block: its locals are destroyed before the handler runs
RRaise(e) ==
    /\ exc' = e
    /\ scope' = "unwind"

\* is_valid(): resource_ != nullptr && resource_->is_valid(); an owned
\* FileHandle has fd_ >= 0 and an owned Buffer has data_ != nullptr
RIsValid(s) == RLive(s) /\ rw[s].res # NoRes

\* RConstruct for a Resource constructor that takes its fd / counts its
\* instance before it validates the arguments
RConstructLeak(s, valid) ==
    /\ scope = "body"
    /\ rw[s].st = "none"
    /\ rNextFd' = RAcquireFd
    /\ rInst' = RAcquireInst
    /\ IF valid
       THEN /\ rAlloc < MaxRes
            /\ rAlloc' = rAlloc + 1
            /\ rw' = [rw EXCEPT ![s] = [st |-> "live", res |-> rAlloc + 1]]
            /\ rOrder' = Append(rOrder, s)
            /\ UNCHANGED <<scope, exc>>
       ELSE /\ RRaise("invalid_argument")
            /\ UNCHANGED <<rw, rOrder, rAlloc>>
    /\ RNote("construct", s, valid)
    /\ UNCHANGED <<rKind, rClosed, rRaw>>

\* explicit ResourceWrapper(Args&&... args): the Resource constructor throws
\* std::invalid_argument on invalid arguments (no object, no wrapper) and the
\* wrapper rethrows it
RConstruct(s, valid) ==
    /\ scope = "body"
    /\ rw[s].st = "none"
    /\ IF valid
       THEN /\ rAlloc < MaxRes
            /\ rAlloc' = rAlloc + 1
            /\ rNextFd' = RAcquireFd
            /\ rInst' = RAcquireInst
            /\ rw' = [rw EXCEPT ![s] = [st |-> "live", res |-> rAlloc + 1]]
            /\ rOrder' = Append(rOrder, s)
            /\ UNCHANGED <<scope, exc>>
       ELSE /\ RRaise("invalid_argument")
            /\ UNCHANGED <<rw, rOrder, rAlloc, rNextFd, rInst>>
    /\ RNote("construct", s, valid)
    /\ UNCHANGED <<rKind, rClosed, rRaw>>

\* ResourceWrapper(ResourceWrapper&& other): resource_(std::move(other.resource_))
RMoveConstruct(s, o) ==
    /\ scope = "body"
    /\ rw[s].st = "none"
    /\ RLive(o)
    /\ rw' = [rw EXCEPT ![s] = [st |-> "live", res |-> rw[o].res],
                        ![o].res = NoRes]
    /\ rOrder' = Append(rOrder, s)
    /\ RNote("move_construct", s, TRUE)
    /\ UNCHANGED <<rKind, rAlloc, rClosed, rNextFd, rInst, rRaw, scope, exc>>

\* RMoveAssign for an assignment that copies the pointer and leaves the
\* source as it was
RMoveAssignKeep(s, o) ==
    /\ scope = "body"
    /\ RLive(s)
    /\ RLive(o)
    /\ IF s # o
       THEN /\ RClose(RResetCloses(rw[s]))
            /\ rw' = [rw EXCEPT ![s].res = rw[o].res]
       ELSE UNCHANGED <<rw, rClosed, rInst>>
    /\ RNote("move_assign", s, TRUE)
    /\ UNCHANGED <<rKind, rOrder, rAlloc, rNextFd, rRaw, scope, exc>>

\* operator=(ResourceWrapper&& other): if (this != &other)
\*   { resource_.reset(); resource_ = std::move(other.resource_); }
RMoveAssign(s, o) ==
    /\ scope = "body"
    /\ RLive(s)
    /\ RLive(o)
    /\ IF s # o
       THEN /\ RClose(RResetCloses(rw[s]))
            /\ rw' = [rw EXCEPT ![s].res = rw[o].res, ![o].res = NoRes]
       ELSE UNCHANGED <<rw, rClosed, rInst>>
    /\ RNote("move_assign", s, TRUE)
    /\ UNCHANGED <<rKind, rOrder, rAlloc, rNextFd, rRaw, scope, exc>>

\* release(): the caller takes the Resource pointer
RRelease(s) ==
    /\ scope = "body"
    /\ RLive(s)
    /\ rw' = [rw EXCEPT ![s].res = NoRes]
    /\ rRaw' = IF rw[s].res = NoRes THEN rRaw ELSE rRaw \cup {rw[s].res}
    /\ RNote("release", s, TRUE)
    /\ UNCHANGED <<rKind, rOrder, rAlloc, rClosed, rNextFd, rInst, scope, exc>>

\* reset(args...): resource_.reset(), then make_unique<Resource>(args...), whose
\* exception is rethrown with resource_ left empty
RReset(s, valid) ==
    /\ scope = "body"
    /\ RLive(s)
    /\ rClosed' = [r \in RObjs |->
                     IF r \in RResetCloses(rw[s]) /\ rClosed[r] < 2
                     THEN rClosed[r] + 1 ELSE rClosed[r]]
    /\ IF valid
       THEN /\ rAlloc < MaxRes
            /\ rAlloc' = rAlloc + 1
            /\ rNextFd' = RAcquireFd
            /\ rInst' = IF rKind = "Buffer"
                        THEN rInst - Cardinality(RResetCloses(rw[s])) + 1
                        ELSE rInst
            /\ rw' = [rw EXCEPT ![s].res = rAlloc + 1]
            /\ UNCHANGED <<scope, exc>>
       ELSE /\ rw' = [rw EXCEPT ![s].res = NoRes]
            /\ rInst' = IF rKind = "Buffer"
                        THEN rInst - Cardinality(RResetCloses(rw[s]))
                        ELSE rInst
            /\ RRaise("invalid_argument")
            /\ UNCHANGED <<rAlloc, rNextFd>>
    /\ RNote("reset", s, valid)
    /\ UNCHANGED <<rKind, rOrder, rRaw>>

\* the caller's delete of a released Resource pointer
RCallerDelete(r) ==
    /\ scope = "body"
    /\ r \in rRaw
    /\ rRaw' = rRaw \ {r}
    /\ RClose({r})
    /\ rLast' = [op |-> "delete", slot |-> "none", held |-> r, ok |-> TRUE]
    /\ UNCHANGED <<rKind, rw, rOrder, rAlloc, rNextFd, scope, exc>>

\* throw std::runtime_error("Operation failed") inside the block
RThrow ==
    /\ scope = "body"
    /\ RRaise("runtime_error")
    /\ UNCHANGED <<rKind, rw, rOrder, rAlloc, rClosed, rNextFd, rInst, rRaw, rLast>>

\* control reaches the closing brace of the block
RLeave ==
    /\ scope = "body"
    /\ scope' = "unwind"
    /\ UNCHANGED <<rKind, rw, rOrder, rAlloc, rClosed, rNextFd, rInst, rRaw, rLast,
                   exc>>

\* leaving the block destroys its wrappers, the last constructed first; with
\* none left the block is left (and the handler has caught the exception)
RUnwind ==
    /\ scope = "unwind"
    /\ IF rOrder # <<>>
       THEN LET s == rOrder[Len(rOrder)] IN
            /\ RClose(RDtorCloses(rw[s]))
            /\ rw' = [rw EXCEPT ![s].st = "dead"]
            /\ rOrder' = SubSeq(rOrder, 1, Len(rOrder) - 1)
            /\ UNCHANGED scope
       ELSE /\ scope' = "done"
            /\ UNCHANGED <<rw, rOrder, rClosed, rInst>>
    /\ UNCHANGED <<rKind, rAlloc, rNextFd, rRaw, rLast, exc>>

\* main() goes on to the next test function: a new block, new local variables
RNextTest ==
    /\ scope = "done"
    /\ scope' = "body"
    /\ exc' = "none"
    /\ rw' = [s \in RSlots |-> [st |-> "none", res |-> NoRes]]
    /\ rLast' = [op |-> "none", slot |-> "none", held |-> NoRes, ok |-> TRUE]
    /\ UNCHANGED <<rKind, rOrder, rAlloc, rClosed, rNextFd, rInst, rRaw>>

\* the program instantiates ResourceWrapper<FileHandle> or ResourceWrapper<Buffer>
RStart ==
    /\ rKind \in {"FileHandle", "Buffer"}
    /\ rw = [s \in RSlots |-> [st |-> "none", res |-> NoRes]]
    /\ rOrder = <<>>
    /\ rAlloc = 0
    /\ rClosed = [r \in RObjs |-> 0]
    /\ rNextFd = 1
    /\ rInst = 0
    /\ rRaw = {}
    /\ rLast = [op |-> "none", slot |-> "none", held |-> 0, ok |-> TRUE]
    /\ scope = "body"
    /\ exc = "none"

RInit == QIdle /\ opsLeft = MaxOps /\ UIdle /\ RStart /\ TIdle /\ VIdle
         /\ RestIdle

RNext ==
    /\ \/ \E s \in RSlots, valid \in BOOLEAN : RConstruct(s, valid) \/ RReset(s, valid)
       \/ \E s \in RSlots, o \in RSlots : RMoveConstruct(s, o) \/ RMoveAssign(s, o)
       \/ \E s \in RSlots : RRelease(s)
       \/ \E r \in RObjs : RCallerDelete(r)
       \/ RThrow \/ RLeave \/ RUnwind \/ RNextTest
    /\ UNCHANGED <<qvars, uvars, tvars, vvars>>
    /\ UNCHANGED <<mvars, bvars, fvars, svars, avars>>

SpecResource == RInit /\ [][RNext]_vars

(***************************************************************************)
(* The two owning wrappers side by side: the program is either the         *)
(* UniquePtr exercise or the ResourceWrapper exercise; the other one stays *)
(* as it is before its main() starts.                                      *)
(***************************************************************************)
OwnInit ==
    /\ QIdle /\ opsLeft = MaxOps /\ TIdle /\ VIdle /\ RestIdle
    /\ (UStart /\ RIdle) \/ (UIdle /\ RStart)

OwnNext == (RIdle /\ UNext) \/ (UIdle /\ RNext)

SpecOwners == OwnInit /\ [][OwnNext]_vars

(***************************************************************************)
(* TrackedResource: the instrumented value type of the move-semantics      *)
(* analysis program.  A statement names its source either as a variable    *)
(* (form "lvalue": T b = a; b = a;) or as std::move of a variable (form    *)
(* "move": T b = std::move(a); b = std::move(a);).                         *)
(***************************************************************************)
TLive(s) == tObj[s].st = "live"

\* TSelect for a class whose only constructor / assignment from its own type
\* takes const TrackedResource&
TSelectCopyOnly(form, cst) == "copy"

\* TSelect for an overload taking const TrackedResource&& written in place
\* of TrackedResource&&: it also binds to std::move of a const object
TSelectAnyRvalue(form, cst) == IF form = "move" THEN "move" ELSE "copy"

\* overload resolution between f(const TrackedResource&) and
\* f(TrackedResource&&): the rvalue-reference overload binds only to a
\* non-const rvalue and is then the better match; everything else binds to
\* the const lvalue reference
TSelect(form, cst) == IF form = "move" /\ ~cst THEN "move" ELSE "copy"

\* TMovedFromObj for a move that leaves other.id_ as it was
TMovedFromKeep(o) == o

\* other.id_ = -1 in the move constructor and the move assignment
TMovedFromObj(o) == [o EXCEPT !.id = MovedFrom]

TNote(k, f, r, d, o) ==
    tLast' = [kind |-> k, form |-> f, ran |-> r, dst |-> d, src |-> o,
              line |-> FALSE]

\* explicit TrackedResource(int value = 0) : id_(next_id_++), for a variable
\* declared const or not
TConstruct(s, c) ==
    /\ tObj[s].st = "none"
    /\ tNextId <= MaxTrackedId
    /\ tObj' = [tObj EXCEPT ![s] = [st |-> "live", id |-> tNextId, cst |-> c]]
    /\ tNextId' = tNextId + 1
    /\ tOrder' = Append(tOrder, s)
    /\ TNote("construct", "value", "ctor", s, "none")
    /\ UNCHANGED tCount

\* T s = o; / T s = std::move(o);  the copy constructor takes a new id and
\* counts a copy; the move constructor takes other.id_, counts a move and
\* marks other moved-from
TConstructFrom(s, o, form) ==
    /\ tObj[s].st = "none"
    /\ TLive(o)
    /\ tOrder' = Append(tOrder, s)
    /\ IF TSelect(form, tObj[o].cst) = "copy"
       THEN /\ tNextId <= MaxTrackedId
            /\ tObj' = [tObj EXCEPT ![s] = [st |-> "live", id |-> tNextId,
                                            cst |-> FALSE]]
            /\ tNextId' = tNextId + 1
            /\ tCount' = [tCount EXCEPT !.copy = @ + 1]
            /\ TNote("construct", form, "copy_ctor", s, o)
       ELSE /\ tObj' = [tObj EXCEPT ![s] = [st |-> "live", id |-> tObj[o].id,
                                            cst |-> FALSE],
                                    ![o] = TMovedFromObj(tObj[o])]
            /\ tNextId' = tNextId
            /\ tCount' = [tCount EXCEPT !.move = @ + 1]
            /\ TNote("construct", form, "move_ctor", s, o)

\* s = o; / s = std::move(o);  on a non-const s.  Both operators do nothing
\* when this == &other
TAssign(s, o, form) ==
    /\ TLive(s)
    /\ ~tObj[s].cst
    /\ TLive(o)
    /\ UNCHANGED tOrder
    /\ IF s = o
       THEN /\ TNote("assign", form, "self", s, o)
            /\ UNCHANGED <<tObj, tNextId, tCount>>
       ELSE IF TSelect(form, tObj[o].cst) = "copy"
       THEN /\ tNextId <= MaxTrackedId
            /\ tObj' = [tObj EXCEPT ![s].id = tNextId]
            /\ tNextId' = tNextId + 1
            /\ tCount' = [tCount EXCEPT !.copy_assign = @ + 1]
            /\ TNote("assign", form, "copy_assign", s, o)
       ELSE /\ tCount.move_assign < MaxAssign
            /\ tObj' = [tObj EXCEPT ![s].id = tObj[o].id,
                                    ![o] = TMovedFromObj(tObj[o])]
            /\ tNextId' = tNextId
            /\ tCount' = [tCount EXCEPT !.move_assign = @ + 1]
            /\ TNote("assign", form, "move_assign", s, o)

\* the scope of the last constructed variable ends: ~TrackedResource()
\* prints its trace line only if (id_ >= 0)
TDestroy ==
    /\ tOrder # <<>>
    /\ LET s == tOrder[Len(tOrder)] IN
       /\ tObj' = [tObj EXCEPT ![s] = [TNoObj EXCEPT !.st = "dead"]]
       /\ tLast' = [kind |-> "destroy", form |-> "none", ran |-> "dtor",
                    dst |-> s, src |-> "none", line |-> tObj[s].id >= 0]
    /\ tOrder' = SubSeq(tOrder, 1, Len(tOrder) - 1)
    /\ UNCHANGED <<tCount, tNextId>>

\* TrackedResource::resetCounters(): the four counters to 0, next_id_ to 1
TResetCounters ==
    /\ tCount # TNoCount \/ tNextId # 1
    /\ tCount' = TNoCount
    /\ tNextId' = 1
    /\ TNote("reset", "none", "none", "none", "none")
    /\ UNCHANGED <<tObj, tOrder>>

TInit == QIdle /\ opsLeft = MaxOps /\ UIdle /\ RIdle /\ TIdle /\ VIdle
         /\ RestIdle

TNext ==
    /\ \/ \E s \in TSlots, c \in BOOLEAN : TConstruct(s, c)
       \/ \E s \in TSlots, o \in TSlots, form \in {"lvalue", "move"} :
             TConstructFrom(s, o, form) \/ TAssign(s, o, form)
       \/ TDestroy
       \/ TResetCounters
    /\ UNCHANGED <<qvars, uvars, rvars, vvars>>
    /\ UNCHANGED <<mvars, bvars, fvars, svars, avars>>

SpecTracked == TInit /\ [][TNext]_vars

(***************************************************************************)
(* Virtual and multiple inheritance: Base / Derived1 / Derived2 / Final    *)
(* and Animal / Mammal / Winged / Bat / AdvancedBat, with the hierarchy    *)
(* MammalBad / WingedBad / BatBad that does not use a virtual base.        *)
(* Flyable and Nocturnal, which declare no constructor and do not derive   *)
(* from Animal, print nothing and are left out.                            *)
(* A name is the sequence of the pieces it was concatenated from.          *)
(***************************************************************************)
VClasses == {"Base", "Derived1", "Derived2", "Final",
             "Animal", "Mammal", "Winged", "Bat", "AdvancedBat",
             "MammalBad", "WingedBad", "BatBad"}

\* the classes of which a complete object is declared: those main() and the
\* test functions declare, and Derived1 and Derived2 on their own
VComplete == {"Final", "Derived1", "Derived2", "Bat", "AdvancedBat", "BatBad"}

\* the classes that keep instance_count_
VCounted == {"Base", "Animal"}

\* the name arguments main() passes
VNames == {<<"Test">>}

\* the base-specifier list of each class, in declaration order
VBases(c) ==
    CASE c = "Derived1" -> <<[cls |-> "Base", virt |-> TRUE]>>
      [] c = "Derived2" -> <<[cls |-> "Base", virt |-> TRUE]>>
      [] c = "Final" -> <<[cls |-> "Derived1", virt |-> FALSE],
                          [cls |-> "Derived2", virt |-> FALSE]>>
      [] c = "MammalBad" -> <<[cls |-> "Animal", virt |-> FALSE]>>
      [] c = "WingedBad" -> <<[cls |-> "Animal", virt |-> FALSE]>>
      [] c = "BatBad" -> <<[cls |-> "MammalBad", virt |-> FALSE],
                           [cls |-> "WingedBad", virt |-> FALSE]>>
      [] c = "Mammal" -> <<[cls |-> "Animal", virt |-> TRUE]>>
      [] c = "Winged" -> <<[cls |-> "Animal", virt |-> TRUE]>>
      [] c = "Bat" -> <<[cls |-> "Mammal", virt |-> FALSE],
                        [cls |-> "Winged", virt |-> FALSE]>>
      [] c = "AdvancedBat" -> <<[cls |-> "Bat", virt |-> FALSE]>>
      [] OTHER -> <<>>

\* the mem-initialiser list of each class's constructor: per base class it
\* names, what it appends to its own name argument
VMemInit(c) ==
    CASE c = "Derived1" -> [Base |-> <<"_D1">>]
      [] c = "Derived2" -> [Base |-> <<"_D2">>]
      [] c = "Final" -> [Base |-> <<>>, Derived1 |-> <<>>, Derived2 |-> <<>>]
      [] c = "MammalBad" -> [Animal |-> <<>>]
      [] c = "WingedBad" -> [Animal |-> <<>>]
      [] c = "BatBad" -> [MammalBad |-> <<>>, WingedBad |-> <<>>]
      [] c = "Mammal" -> [Animal |-> <<>>]
      [] c = "Winged" -> [Animal |-> <<>>]
      [] c = "Bat" -> [Animal |-> <<>>, Mammal |-> <<>>, Winged |-> <<>>]
      [] c = "AdvancedBat" -> [Bat |-> <<>>]
      [] OTHER -> <<>>

\* Base and Animal declare only a constructor taking a name
VHasDefaultCtor(c) == c \notin VCounted

RECURSIVE VVirtFrom(_, _)
RECURSIVE VDedup(_, _)
RECURSIVE VVirtPlan(_, _, _)
RECURSIVE VBasesPlan(_, _, _)
RECURSIVE VCtorPlan(_, _, _)
RECURSIVE VReverse(_)

\* q without the classes in seen and without repetitions, first occurrence kept
VDedup(q, seen) ==
    IF q = <<>> THEN <<>>
    ELSE IF Head(q) \in seen THEN VDedup(Tail(q), seen)
    ELSE <<Head(q)>> \o VDedup(Tail(q), seen \cup {Head(q)})

\* the virtual bases reached through the base specifiers of c from the i-th
\* on, depth first and left to right
VVirtFrom(c, i) ==
    IF i > Len(VBases(c)) THEN <<>>
    ELSE LET b == VBases(c)[i] IN
         VVirtFrom(b.cls, 1) \o (IF b.virt THEN <<b.cls>> ELSE <<>>)
             \o VVirtFrom(c, i + 1)

\* the virtual base classes of c, in the order of their construction
VVirt(c) == VDedup(VVirtFrom(c, 1), {})

\* a declaration of a complete object of class c compiles only if c's
\* constructor can initialise every virtual base: by a mem-initialiser, or
\* else by the base's default constructor
VWellFormed(c) ==
    \A i \in 1 .. Len(VVirt(c)) :
        VVirt(c)[i] \in DOMAIN VMemInit(c) \/ VHasDefaultCtor(VVirt(c)[i])

\* VSkipped for a compiler that treats a virtual base like any other base
VSkippedNever(b) == FALSE

\* the constructor of a base-class subobject does not construct the virtual
\* bases: its mem-initialisers for them are ignored
VSkipped(b) == b.virt

\* the virtual bases of the complete object c(n), from the i-th on, each
\* initialised by c's own mem-initialiser
VVirtPlan(c, n, i) ==
    IF i > Len(VVirt(c)) THEN <<>>
    ELSE LET v == VVirt(c)[i] IN
         VCtorPlan(v, n \o VMemInit(c)[v], FALSE) \o VVirtPlan(c, n, i + 1)

\* the direct bases of c(n) from the i-th on, in declaration order
VBasesPlan(c, n, i) ==
    IF i > Len(VBases(c)) THEN <<>>
    ELSE LET b == VBases(c)[i] IN
         (IF VSkipped(b) THEN <<>>
          ELSE VCtorPlan(b.cls, n \o VMemInit(c)[b.cls], FALSE))
             \o VBasesPlan(c, n, i + 1)

\* the constructor bodies that run for c(n), in order, each with the name
\* argument it receives: for a complete object (md) the virtual bases first,
\* then the direct bases, then c's own body
VCtorPlan(c, n, md) ==
    (IF md THEN VVirtPlan(c, n, 1) ELSE <<>>)
        \o VBasesPlan(c, n, 1)
        \o <<[cls |-> c, name |-> n]>>

VReverse(q) ==
    IF q = <<>> THEN <<>> ELSE VReverse(Tail(q)) \o <<Head(q)>>

\* VDtorPlan for destructors run in the order of construction
VDtorPlanSame(made) == made

\* the destructor bodies run in the reverse order of the constructor bodies
VDtorPlan(made) == VReverse(made)

\* ++instance_count_ / --instance_count_ in the body of a counted class
VBump(c, d) == IF c \in VCounted THEN [vCount EXCEPT ![c] = @ + d] ELSE vCount

\* the counted class at the root of c's hierarchy
VRoot(c) == IF c \in {"Base", "Derived1", "Derived2", "Final"} THEN "Base"
            ELSE "Animal"

VTop == vStack[Len(vStack)]
VBusy == vStack # <<>> /\ VTop.phase \in {"constructing", "destroying"}
VSetTop(o) == vStack' = [vStack EXCEPT ![Len(vStack)] = o]

\* a declaration  C obj(n);  starts the construction of a complete object,
\* or is rejected by the compiler
VDeclare(c, n) ==
    /\ ~VBusy
    /\ Len(vStack) < MaxVObj
    /\ IF VWellFormed(c)
       THEN /\ vStack' = Append(vStack,
                   [VNoObj EXCEPT !.cls = c, !.name = n,
                                  !.phase = "constructing",
                                  !.todo = VCtorPlan(c, n, TRUE),
                                  !.cnt0 = vCount[VRoot(c)]])
            /\ vRejected' = "none"
       ELSE /\ vRejected' = c
            /\ UNCHANGED vStack
    /\ vDone' = VNoObj
    /\ UNCHANGED vCount

\* the next constructor body of the object under construction runs
VCtorStep ==
    /\ vStack # <<>>
    /\ VTop.phase = "constructing"
    /\ LET e == Head(VTop.todo)
           cnt == VBump(e.cls, 1)
           rest == Tail(VTop.todo) IN
       /\ vCount' = cnt
       /\ VSetTop([VTop EXCEPT !.todo = rest,
                               !.made = Append(@, e),
                               !.phase = IF rest = <<>> THEN "alive" ELSE @,
                               !.cnt1 = IF rest = <<>> THEN cnt[VRoot(VTop.cls)]
                                        ELSE @])
    /\ UNCHANGED <<vDone, vRejected>>

\* the scope of the innermost object ends: its destruction starts
VScopeExit ==
    /\ vStack # <<>>
    /\ VTop.phase = "alive"
    /\ VSetTop([VTop EXCEPT !.phase = "destroying",
                            !.todo = VDtorPlan(VTop.made),
                            !.cnt2 = vCount[VRoot(VTop.cls)]])
    /\ UNCHANGED <<vDone, vRejected, vCount>>

\* the next destructor body runs; after the last one the object is gone
VDtorStep ==
    /\ vStack # <<>>
    /\ VTop.phase = "destroying"
    /\ LET e == Head(VTop.todo)
           cnt == VBump(e.cls, -1)
           rest == Tail(VTop.todo)
           o == [VTop EXCEPT !.todo = rest, !.gone = Append(@, e)] IN
       /\ vCount' = cnt
       /\ IF rest = <<>>
          THEN /\ vStack' = SubSeq(vStack, 1, Len(vStack) - 1)
               /\ vDone' = [o EXCEPT !.phase = "dead",
                                     !.cnt3 = cnt[VRoot(VTop.cls)]]
          ELSE /\ VSetTop(o)
               /\ UNCHANGED vDone
    /\ UNCHANGED vRejected

\* Animal::resetInstanceCount(), between two statements
VResetCount ==
    /\ ~VBusy
    /\ vCount["Animal"] # 0
    /\ vCount' = [vCount EXCEPT !["Animal"] = 0]
    /\ UNCHANGED <<vStack, vDone, vRejected>>

VInit == QIdle /\ opsLeft = MaxOps /\ UIdle /\ RIdle /\ TIdle /\ VIdle
         /\ RestIdle

VNext ==
    /\ \/ \E c \in VComplete, n \in VNames : VDeclare(c, n)
       \/ VCtorStep
       \/ VScopeExit
       \/ VDtorStep
       \/ VResetCount
    /\ UNCHANGED <<qvars, uvars, rvars, tvars>>
    /\ UNCHANGED <<mvars, bvars, fvars, svars, avars>>

SpecVirtual == VInit /\ [][VNext]_vars

(***************************************************************************)
(* ResourceManager (exercise 2)                                            *)
(*                                                                         *)
(* The block of Test 4: its local ResourceManager variables are destroyed  *)
(* in reverse order of construction.  buf is the int array buffer_ points  *)
(* to (0 is nullptr).                                                      *)
(***************************************************************************)
\* the sizes the constructor is called with (new int[0]() is a valid,
\* non-null allocation)
MSizes == {0, 5, 10}

MLive(s) == mObj[s].st = "live"

\* valid(): buffer_ != nullptr
MValid(s) == mObj[s].buf # 0

\* delete[] applied to the buffers ds (deleting twice is undefined; the
\* count stops at 2); delete[] nullptr does nothing
MDelete(ds) ==
    mFreed' = [x \in MBufs |->
                 IF x \in ds /\ mFreed[x] < 2 THEN mFreed[x] + 1 ELSE mFreed[x]]

\* the object a move leaves behind: size_ = 0, buffer_ = nullptr
MMovedFrom(o) == [o EXCEPT !.size = 0, !.buf = 0]

\* explicit ResourceManager(size_t size): buffer_(new int[size]())
MConstruct(s, n) ==
    /\ mObj[s].st = "none"
    /\ mAlloc < MaxBuf
    /\ mAlloc' = mAlloc + 1
    /\ mObj' = [mObj EXCEPT ![s] = [st |-> "live", size |-> n, buf |-> mAlloc + 1]]
    /\ mOrder' = Append(mOrder, s)
    /\ UNCHANGED mFreed

\* MMoveConstruct for a constructor that copies size_ and buffer_ and leaves
\* the source as it was
MMoveConstructCopy(s, o) ==
    /\ mObj[s].st = "none"
    /\ MLive(o)
    /\ mObj' = [mObj EXCEPT ![s] = [st |-> "live", size |-> mObj[o].size,
                                    buf |-> mObj[o].buf]]
    /\ mOrder' = Append(mOrder, s)
    /\ UNCHANGED <<mAlloc, mFreed>>

\* ResourceManager(ResourceManager&& other)
MMoveConstruct(s, o) ==
    /\ mObj[s].st = "none"
    /\ MLive(o)
    /\ mObj' = [mObj EXCEPT ![s] = [st |-> "live", size |-> mObj[o].size,
                                    buf |-> mObj[o].buf],
                            ![o] = MMovedFrom(mObj[o])]
    /\ mOrder' = Append(mOrder, s)
    /\ UNCHANGED <<mAlloc, mFreed>>

\* the body of the move assignment, run on s with other = o: delete[]
\* buffer_, take other's size_ and buffer_, reset other (with s = o the
\* last two assignments win)
MTake(s, o) ==
    /\ MDelete({mObj[s].buf} \ {0})
    /\ mObj' = [[mObj EXCEPT ![s] = [st |-> "live", size |-> mObj[o].size,
                                     buf |-> mObj[o].buf]]
                   EXCEPT ![o] = MMovedFrom(@)]

\* MMoveAssign without the test this != &other
MMoveAssignNoGuard(s, o) ==
    /\ MLive(s)
    /\ MLive(o)
    /\ MTake(s, o)
    /\ UNCHANGED <<mOrder, mAlloc>>

\* operator=(ResourceManager&& other)
MMoveAssign(s, o) ==
    /\ MLive(s)
    /\ MLive(o)
    /\ IF s # o
       THEN MTake(s, o)
       ELSE UNCHANGED <<mObj, mFreed>>
    /\ UNCHANGED <<mOrder, mAlloc>>

\* ~ResourceManager() of the variable constructed last: if (buffer_) delete[]
MDestroy ==
    /\ mOrder # <<>>
    /\ LET s == mOrder[Len(mOrder)] IN
         /\ MDelete({mObj[s].buf} \ {0})
         /\ mObj' = [mObj EXCEPT ![s] = [MNoObj EXCEPT !.st = "dead"]]
    /\ mOrder' = SubSeq(mOrder, 1, Len(mOrder) - 1)
    /\ UNCHANGED mAlloc

MInit ==
    /\ QIdle /\ opsLeft = MaxOps /\ UIdle /\ RIdle /\ TIdle /\ VIdle
    /\ MIdle /\ BIdle /\ FIdle /\ SIdle /\ AIdle

MNext ==
    /\ \/ \E s \in MSlots, n \in MSizes : MConstruct(s, n)
       \/ \E s \in MSlots, o \in MSlots : MMoveConstruct(s, o) \/ MMoveAssign(s, o)
       \/ MDestroy
    /\ UNCHANGED <<qvars, uvars, rvars, tvars, vvars>>
    /\ UNCHANGED <<bvars, fvars, svars, avars>>

SpecManager == MInit /\ [][MNext]_vars

(***************************************************************************)
(* Buffer (exercise 4), used by value                                      *)
(*                                                                         *)
(* Local Buffer variables of one block.  data is the char array data_      *)
(* points to (0 is nullptr).                                               *)
(***************************************************************************)
\* the sizes the constructor is called with
BSizes == {0, 8}

BLive(s) == bObj[s].st = "live"

\* delete[] applied to the blocks ds
BDelete(ds) ==
    bFreed' = [x \in BBlks |->
                 IF x \in ds /\ bFreed[x] < 2 THEN bFreed[x] + 1 ELSE bFreed[x]]

\* if (data_) { delete[] data_; --instance_count_; } run on the object w
BDrop(w) ==
    /\ BDelete({w.data} \ {0})
    /\ bInst' = IF w.data # 0 THEN bInst - 1 ELSE bInst

\* the object a move leaves behind: size_ = 0, data_ = nullptr
BMovedFrom(o) == [o EXCEPT !.size = 0, !.data = 0]

\* explicit Buffer(size_t size): throws std::invalid_argument for size 0,
\* before anything is allocated or counted
BConstruct(s, n) ==
    /\ bObj[s].st = "none"
    /\ IF n = 0
       THEN UNCHANGED <<bObj, bOrder, bAlloc, bInst>>
       ELSE /\ bAlloc < MaxBlk
            /\ bAlloc' = bAlloc + 1
            /\ bInst' = bInst + 1
            /\ bObj' = [bObj EXCEPT ![s] = [st |-> "live", size |-> n,
                                            data |-> bAlloc + 1]]
            /\ bOrder' = Append(bOrder, s)
    /\ UNCHANGED bFreed

\* BCopyConstruct for a copy constructor that counts the instance whether
\* or not it allocates
BCopyConstructCount(s, o) ==
    /\ bObj[s].st = "none"
    /\ BLive(o)
    /\ IF bObj[o].data # 0
       THEN /\ bAlloc < MaxBlk
            /\ bAlloc' = bAlloc + 1
            /\ bObj' = [bObj EXCEPT ![s] = [st |-> "live", size |-> bObj[o].size,
                                            data |-> bAlloc + 1]]
       ELSE /\ bObj' = [bObj EXCEPT ![s] = [st |-> "live", size |-> bObj[o].size,
                                            data |-> 0]]
            /\ UNCHANGED bAlloc
    /\ bInst' = bInst + 1
    /\ bOrder' = Append(bOrder, s)
    /\ UNCHANGED bFreed

\* Buffer(const Buffer& other): a deep copy, counted only if other has data
BCopyConstruct(s, o) ==
    /\ bObj[s].st = "none"
    /\ BLive(o)
    /\ IF bObj[o].data # 0
       THEN /\ bAlloc < MaxBlk
            /\ bAlloc' = bAlloc + 1
            /\ bInst' = bInst + 1
            /\ bObj' = [bObj EXCEPT ![s] = [st |-> "live", size |-> bObj[o].size,
                                            data |-> bAlloc + 1]]
       ELSE /\ bObj' = [bObj EXCEPT ![s] = [st |-> "live", size |-> bObj[o].size,
                                            data |-> 0]]
            /\ UNCHANGED <<bAlloc, bInst>>
    /\ bOrder' = Append(bOrder, s)
    /\ UNCHANGED bFreed

\* operator=(const Buffer& other): if (this != &other) { Buffer temp(other);
\* swap(temp); } and temp, which now holds what *this held, is destroyed
BCopyAssign(s, o) ==
    /\ BLive(s)
    /\ BLive(o)
    /\ IF s # o
       THEN /\ BDelete({bObj[s].data} \ {0})
            /\ IF bObj[o].data # 0
               THEN /\ bAlloc < MaxBlk
                    /\ bAlloc' = bAlloc + 1
                    /\ bObj' = [bObj EXCEPT ![s].size = bObj[o].size,
                                            ![s].data = bAlloc + 1]
                    /\ bInst' = IF bObj[s].data # 0 THEN bInst ELSE bInst + 1
               ELSE /\ bObj' = [bObj EXCEPT ![s].size = bObj[o].size,
                                            ![s].data = 0]
                    /\ bInst' = IF bObj[s].data # 0 THEN bInst - 1 ELSE bInst
                    /\ UNCHANGED bAlloc
       ELSE UNCHANGED <<bObj, bAlloc, bFreed, bInst>>
    /\ UNCHANGED bOrder

\* Buffer(Buffer&& other)
BMoveConstruct(s, o) ==
    /\ bObj[s].st = "none"
    /\ BLive(o)
    /\ bObj' = [bObj EXCEPT ![s] = [st |-> "live", size |-> bObj[o].size,
                                    data |-> bObj[o].data],
                            ![o] = BMovedFrom(bObj[o])]
    /\ bOrder' = Append(bOrder, s)
    /\ UNCHANGED <<bAlloc, bFreed, bInst>>

\* the body of the move assignment, run on s with other = o
BTake(s, o) ==
    /\ BDrop(bObj[s])
    /\ bObj' = [[bObj EXCEPT ![s] = [st |-> "live", size |-> bObj[o].size,
                                     data |-> bObj[o].data]]
                   EXCEPT ![o] = BMovedFrom(@)]

\* operator=(Buffer&& other)
BMoveAssign(s, o) ==
    /\ BLive(s)
    /\ BLive(o)
    /\ IF s # o
       THEN BTake(s, o)
       ELSE UNCHANGED <<bObj, bFreed, bInst>>
    /\ UNCHANGED <<bOrder, bAlloc>>

\* swap(Buffer& other): std::swap of size_ and of data_
BSwap(s, o) ==
    /\ BLive(s)
    /\ BLive(o)
    /\ bObj' = [bObj EXCEPT ![s].size = bObj[o].size, ![s].data = bObj[o].data,
                            ![o].size = bObj[s].size, ![o].data = bObj[s].data]
    /\ UNCHANGED <<bOrder, bAlloc, bFreed, bInst>>

\* ~Buffer() of the variable constructed last
BDestroy ==
    /\ bOrder # <<>>
    /\ LET s == bOrder[Len(bOrder)] IN
         /\ BDrop(bObj[s])
         /\ bObj' = [bObj EXCEPT ![s] = [BNoObj EXCEPT !.st = "dead"]]
    /\ bOrder' = SubSeq(bOrder, 1, Len(bOrder) - 1)
    /\ UNCHANGED bAlloc

\* the block is left and the next one declares its variables anew
BNextBlock ==
    /\ bOrder = <<>>
    /\ \E s \in BSlots : bObj[s].st = "dead"
    /\ bObj' = [s \in BSlots |-> BNoObj]
    /\ UNCHANGED <<bOrder, bAlloc, bFreed, bInst>>

BInit ==
    /\ QIdle /\ opsLeft = MaxOps /\ UIdle /\ RIdle /\ TIdle /\ VIdle
    /\ MIdle /\ BIdle /\ FIdle /\ SIdle /\ AIdle

BNext ==
    /\ \/ \E s \in BSlots, n \in BSizes : BConstruct(s, n)
       \/ \E s \in BSlots, o \in BSlots :
             \/ BCopyConstruct(s, o) \/ BCopyAssign(s, o)
             \/ BMoveConstruct(s, o) \/ BMoveAssign(s, o) \/ BSwap(s, o)
       \/ BDestroy \/ BNextBlock
    /\ UNCHANGED <<qvars, uvars, rvars, tvars, vvars>>
    /\ UNCHANGED <<mvars, fvars, svars, avars>>

SpecBuffer == BInit /\ [][BNext]_vars

(***************************************************************************)
(* FileHandle (exercise 4), used by value                                  *)
(***************************************************************************)
FLive(s) == fObj[s].st = "live"

\* FileHandle::is_valid(): fd_ >= 0
FValid(s) == fObj[s].fd >= 0

\* the fd of w, if it has one, is closed
FClose(w) ==
    fClosed' = [x \in FFds |->
                  IF x = w.fd /\ fClosed[x] < 2 THEN fClosed[x] + 1
                  ELSE fClosed[x]]

\* FileHandle(const char* filename): throws std::invalid_argument for a
\* null or empty name, before next_fd_ is touched
FConstruct(s, valid) ==
    /\ fObj[s].st = "none"
    /\ IF valid
       THEN /\ fNextFd <= MaxFd
            /\ fNextFd' = fNextFd + 1
            /\ fObj' = [fObj EXCEPT ![s] = [st |-> "live", fd |-> fNextFd]]
            /\ fOrder' = Append(fOrder, s)
       ELSE UNCHANGED <<fObj, fOrder, fNextFd>>
    /\ UNCHANGED fClosed

\* FileHandle(FileHandle&& other)
FMoveConstruct(s, o) ==
    /\ fObj[s].st = "none"
    /\ FLive(o)
    /\ fObj' = [fObj EXCEPT ![s] = [st |-> "live", fd |-> fObj[o].fd],
                            ![o].fd = NoFd]
    /\ fOrder' = Append(fOrder, s)
    /\ UNCHANGED <<fNextFd, fClosed>>

\* operator=(FileHandle&& other): the fd *this held is closed
FMoveAssign(s, o) ==
    /\ FLive(s)
    /\ FLive(o)
    /\ IF s # o
       THEN /\ FClose(fObj[s])
            /\ fObj' = [fObj EXCEPT ![s].fd = fObj[o].fd, ![o].fd = NoFd]
       ELSE UNCHANGED <<fObj, fClosed>>
    /\ UNCHANGED <<fOrder, fNextFd>>

\* ~FileHandle() of the variable constructed last
FDestroy ==
    /\ fOrder # <<>>
    /\ LET s == fOrder[Len(fOrder)] IN
         /\ FClose(fObj[s])
         /\ fObj' = [fObj EXCEPT ![s] = [FNoObj EXCEPT !.st = "dead"]]
    /\ fOrder' = SubSeq(fOrder, 1, Len(fOrder) - 1)
    /\ UNCHANGED fNextFd

FNext ==
    /\ \/ \E s \in FSlots, valid \in BOOLEAN : FConstruct(s, valid)
       \/ \E s \in FSlots, o \in FSlots : FMoveConstruct(s, o) \/ FMoveAssign(s, o)
       \/ FDestroy
    /\ UNCHANGED <<qvars, uvars, rvars, tvars, vvars>>
    /\ UNCHANGED <<mvars, bvars, svars, avars>>

(***************************************************************************)
(* FixedArray<T, N> (exercise 5) with T = int                              *)
(*                                                                         *)
(* data_ is the sequence of the N elements; C++ index i is position i + 1. *)
(* An element no constructor has written yet holds Uninit.                 *)
(***************************************************************************)
Uninit == -1

\* T{} for int
TDefault == 0

\* the values of the initializer lists, and the lists
AVals == 0 .. MaxVal
ALists == UNION {[1 .. m -> AVals] : m \in 0 .. MaxLen}

\* data_[i++] = v in a constructor whose variables are d (data_, i and
\* whether a write has gone outside data_) for an array of n elements
AStore(d, v, n) ==
    [data |-> IF d.i < n THEN [d.data EXCEPT ![d.i + 1] = v] ELSE d.data,
     i |-> d.i + 1,
     overrun |-> d.overrun \/ d.i >= n]

RECURSIVE AListLoopNoGuard(_, _, _, _)
RECURSIVE AListLoop(_, _, _, _)
RECURSIVE AFillLoop(_, _)

\* AListLoop without the test i < N: every list value is stored
AListLoopNoGuard(d, l, k, n) ==
    IF k > Len(l) THEN d
    ELSE AListLoopNoGuard(AStore(d, l[k], n), l, k + 1, n)

\* for (const auto& val : init) { if (i < N) data_[i++] = val; else break; }
\* from the k-th list value on
AListLoop(d, l, k, n) ==
    IF k > Len(l) THEN d
    ELSE IF d.i < n THEN AListLoop(AStore(d, l[k], n), l, k + 1, n)
    ELSE d

\* while (i < N) data_[i++] = T{};
AFillLoop(d, n) ==
    IF d.i < n THEN AFillLoop(AStore(d, TDefault, n), n) ELSE d

\* the storage of a FixedArray<int, n> before a constructor body runs
ARaw(n) == [data |-> [j \in 1 .. n |-> Uninit], i |-> 0, overrun |-> FALSE]

\* FixedArray(std::initializer_list<T> init)
AFromList(l, n) == AFillLoop(AListLoop(ARaw(n), l, 1, n), n)

\* AtThrows testing index > N
AtThrowsAbove(index, n) == index > n

\* at(index): the test index >= N that throws std::out_of_range
AtThrows(index, n) == index >= n

\* the position of the element data_[index] refers to
AElem(index) == index + 1

\* FixedArray(): std::fill(data_, data_ + N, T{})
AConstructDefault ==
    /\ ~aBuilt
    /\ aBuilt' = TRUE
    /\ data_' = [j \in 1 .. aN |-> TDefault]
    /\ aList' = <<>>
    /\ aRes' = [ANoAccess EXCEPT !.op = "default"]
    /\ UNCHANGED <<aN, aOverrun>>

\* FixedArray(std::initializer_list<T> init)
AConstructList(l) ==
    /\ ~aBuilt
    /\ aBuilt' = TRUE
    /\ data_' = AFromList(l, aN).data
    /\ aOverrun' = AFromList(l, aN).overrun
    /\ aList' = l
    /\ aRes' = [ANoAccess EXCEPT !.op = "list"]
    /\ UNCHANGED aN

\* at(index): throws, or returns a reference to data_[index]
AAt(index) ==
    /\ aBuilt
    /\ aRes' = [op |-> "at", index |-> index,
                threw |-> AtThrows(index, aN),
                elem |-> IF AtThrows(index, aN) THEN 0 ELSE AElem(index),
                before |-> data_]
    /\ UNCHANGED <<aN, aBuilt, data_, aList, aOverrun>>

\* operator[](index) with index < N: a reference to data_[index]
AIndex(index) ==
    /\ aBuilt
    /\ index < aN
    /\ aRes' = [op |-> "index", index |-> index, threw |-> FALSE,
                elem |-> AElem(index), before |-> data_]
    /\ UNCHANGED <<aN, aBuilt, data_, aList, aOverrun>>

\* the program instantiates FixedArray<int, N> and has not declared the
\* array yet
AStart ==
    /\ aN \in 1 .. MaxN
    /\ aBuilt = FALSE
    /\ data_ = <<>>
    /\ aList = <<>>
    /\ aOverrun = FALSE
    /\ aRes = ANoAccess

AInit ==
    /\ QIdle /\ opsLeft = MaxOps /\ UIdle /\ RIdle /\ TIdle /\ VIdle
    /\ MIdle /\ BIdle /\ FIdle /\ SIdle /\ AStart

\* size_t index: the values up to N + 1
ANext ==
    /\ \/ AConstructDefault
       \/ \E l \in ALists : AConstructList(l)
       \/ \E index \in 0 .. aN + 1 : AAt(index) \/ AIndex(index)
    /\ UNCHANGED <<qvars, uvars, rvars, tvars, vvars>>
    /\ UNCHANGED <<mvars, bvars, fvars, svars>>

SpecArray == AInit /\ [][ANext]_vars

(***************************************************************************)
(* The movable types side by side: the program is one of the UniquePtr,    *)
(* ResourceWrapper, ResourceManager, Buffer and FileHandle programs; the   *)
(* others stay as they are before they start.                              *)
(***************************************************************************)
MoversInit ==
    /\ QIdle /\ opsLeft = MaxOps /\ TIdle /\ VIdle /\ SIdle /\ AIdle
    /\ MIdle /\ BIdle /\ FIdle
    /\ (UStart /\ RIdle) \/ (UIdle /\ RStart)

MoversNext ==
    \/ (RIdle /\ MIdle /\ BIdle /\ FIdle /\ UNext)
    \/ (UIdle /\ MIdle /\ BIdle /\ FIdle /\ RNext)
    \/ (UIdle /\ RIdle /\ BIdle /\ FIdle /\ MNext)
    \/ (UIdle /\ RIdle /\ MIdle /\ FIdle /\ BNext)
    \/ (UIdle /\ RIdle /\ MIdle /\ BIdle /\ FNext)

SpecMovers == MoversInit /\ [][MoversNext]_vars

(***************************************************************************)
(* Properties of ThreadSafeQueue<T>                                        *)
(***************************************************************************)
\* the statements that read or write queue_
AccessPcs ==
    {"push_push", "pop_pred", "pop_front", "pop_pop",
     "tryr_empty", "tryr_front", "tryr_pop", "tryo_empty", "tryo_front",
     "tryo_pop", "pt_pred", "pt_front", "pt_pop", "empty_read", "size_read"}

Range(s) == {s[i] : i \in DOMAIN s}
\* the multiset of the elements of a sequence
SeqBag(s) == [v \in Range(s) |-> Cardinality({i \in DOMAIN s : s[i] = v})]

\* C1: pop() gets past its wait only while the queue is non-empty: a thread
\* leaves the wait loop of pop() (testing the predicate, blocked, or woken and
\* re-acquiring the mutex) only in a step taken with queue_ non-empty, the
\* queue is still non-empty when it reads the front and when it removes it, and
\* the call returns an item that was pushed.
C1_PopBlocksWhileEmpty ==
    /\ [](\A t \in Threads :
            /\ pc[t] \in {"pop_front", "pop_pop"} => queue_ # <<>>
            /\ pc[t] = "pop_unlock" =>
                  ret[t] = "value" /\ item[t] \in Range(pushed))
    /\ [](~ub)
    /\ [][\A t \in Threads :
            (pc[t] \in {"pop_lock", "pop_pred", "pop_wait"}
                /\ pc'[t] \notin {"pop_lock", "pop_pred", "pop_wait"})
            => (queue_ # <<>> /\ pc'[t] = "pop_front")]_vars

\* C1 witness: a consumer that blocked in pop() was woken, holds the mutex
\* again and finds the queue empty although an item had been pushed (another
\* consumer took it): it is about to wait again.
C1_Witness ==
    \E t \in Threads :
        pc[t] = "pop_pred" /\ waited[t] /\ queue_ = <<>> /\ pushed # <<>>

\* C2: when pop() reaches the end of its critical section the queue holds
\* exactly one element less than when the wait predicate succeeded, and nothing
\* changed the queue between the predicate and the removal.
C2_PopRemovesExactlyOne ==
    \A t \in Threads :
        /\ pc[t] \in {"pop_front", "pop_pop"} => queue_ = snap[t]
        /\ pc[t] = "pop_unlock" =>
              /\ Len(queue_) = Len(snap[t]) - 1
              /\ queue_ = Tail(snap[t])

\* C2 witness: pop() is at the end of its critical section, having taken an
\* item, while a producer and another consumer are waiting for the mutex.
C2_Witness ==
    \E t \in Threads, u \in Threads, w \in Threads :
        /\ pc[t] = "pop_unlock" /\ Len(snap[t]) = 1 /\ queue_ = <<>>
        /\ pc[u] = "push_lock"
        /\ pc[w] = "tryr_lock"

\* C3: first in, first out: the items taken so far (by pop, try_pop and
\* pop_timeout), in the order they were taken, are the first items inserted,
\* in the order queue_.push inserted them.
C3_Fifo ==
    /\ Len(removed) <= Len(pushed)
    /\ \A i \in DOMAIN removed : removed[i] = pushed[i]

\* C3 witness: two producers raced, the item created second was inserted
\* first, and both items have been taken, in insertion order.
C3_Witness == pushed = <<2, 1>> /\ removed = <<2, 1>>

\* C4: every statement that reads or writes queue_ runs with the mutex held by
\* the executing thread, so no two threads are at such a statement together,
\* and a thread blocked on the condition variable does not hold the mutex.
C4_MutualExclusion ==
    /\ \A t \in Threads : pc[t] \in AccessPcs => mutex_ = t
    /\ \A t \in Threads, u \in Threads :
          (t # u /\ pc[t] \in AccessPcs) => pc[u] \notin AccessPcs
    /\ \A t \in condition_ : mutex_ # t

\* C4 witness: one thread reads the size under the mutex while another one is
\* blocked on the condition variable and a third waits for the mutex.
C4_Witness ==
    \E t \in Threads, u \in Threads, w \in Threads :
        /\ pc[t] = "size_read"
        /\ pc[u] = "pop_wait" /\ u \in condition_
        /\ pc[w] = "push_lock"

\* C5: no item is lost or duplicated: the items inserted are, as a multiset,
\* the items taken plus the items still queued; the queue's length is the
\* number of insertions minus the number of removals, and that is what size()
\* returns.
C5_NoLossNoDuplication ==
    /\ SeqBag(pushed) = SeqBag(removed) (+) SeqBag(queue_)
    /\ Len(queue_) = Len(pushed) - Len(removed)
    /\ \A t \in Threads :
          pc[t] = "size_unlock" => sized[t] = Len(pushed) - Len(removed)

\* C5 witness: two items were pushed, one was taken, and size() returns 1.
C5_Witness ==
    \E t \in Threads :
        /\ pc[t] = "size_unlock" /\ sized[t] = 1
        /\ Len(pushed) = 2 /\ Len(removed) = 1

C7_TryPop ==
    \A t \in Threads :
        /\ pc[t] \in {"tryr_lock", "tryr_empty", "tryr_front", "tryr_pop",
                      "tryr_unlock", "tryo_lock", "tryo_empty", "tryo_front",
                      "tryo_pop", "tryo_unlock"}
              => (t \notin condition_ /\ ~waited[t])
        /\ (pc[t] = "tryr_unlock" /\ ret[t] = "false")
              => (snap[t] = <<>> /\ queue_ = <<>> /\ item[t] = NoItem)
        /\ (pc[t] = "tryo_unlock" /\ ret[t] = "nullopt")
              => (snap[t] = <<>> /\ queue_ = <<>> /\ item[t] = NoItem)
        /\ (pc[t] = "tryr_unlock" /\ ret[t] # "false")
              => /\ ret[t] = "true" /\ snap[t] # <<>>
                 /\ item[t] = Head(snap[t]) /\ queue_ = Tail(snap[t])
        /\ (pc[t] = "tryo_unlock" /\ ret[t] # "nullopt")
              => /\ ret[t] = "value" /\ snap[t] # <<>>
                 /\ item[t] = Head(snap[t]) /\ queue_ = Tail(snap[t])

\* C7 witness: try_pop(T&) returns true with the front of a two-item queue
\* while a try_pop() of another thread waits for the mutex.
C7_Witness ==
    \E t \in Threads, u \in Threads :
        /\ pc[t] = "tryr_unlock" /\ ret[t] = "true" /\ Len(snap[t]) = 2
        /\ pc[u] = "tryo_lock"

\* what pop_timeout returns, by the last test of the predicate
PtResult(t) ==
    /\ pc[t] \in {"pt_front", "pt_pop"} => queue_ = snap[t] /\ queue_ # <<>>
    /\ (pc[t] = "pt_unlock" /\ ret[t] = "nullopt")
          => (timedout[t] /\ snap[t] = <<>> /\ queue_ = <<>>)
    /\ (pc[t] = "pt_unlock" /\ ret[t] # "nullopt")
          => /\ ret[t] = "value" /\ snap[t] # <<>>
             /\ item[t] = Head(snap[t]) /\ queue_ = Tail(snap[t])

\* C8 (amended): pop_timeout returns an empty result only after its deadline
\* has passed and with the queue empty when it tests it for the last time
\* (the queue is then unchanged); whenever a test of the predicate (at the
\* call, after a wake-up or at expiry) finds the queue non-empty it returns the
\* front item and removes it; and a call never stays in its wait for ever.
C8_PopTimeout ==
    /\ [](\A t \in Threads : PtResult(t))
    /\ \A t \in Threads : []<>(pc[t] # "pt_wait")

\* C8 witness: pop_timeout returns empty after its deadline passed, although
\* an item arrived while it waited (another consumer took it).
C8_Witness ==
    \E t \in Threads :
        pc[t] = "pt_unlock" /\ ret[t] = "nullopt" /\ timedout[t] /\ arrived[t]

\* C8 as stated: in addition, a call during whose wait the queue became
\* non-empty before the deadline returns an item.
C8_Original ==
    \A t \in Threads :
        /\ PtResult(t)
        /\ (pc[t] = "pt_unlock" /\ arrived[t]) => ret[t] = "value"

(***************************************************************************)
(* Properties of UniquePtr<T[]>                                            *)
(***************************************************************************)
\* the live wrappers that point to object o
UOwners(o) == {s \in USlots : ULive(s) /\ uw[s].ptr = o}

\* C9: with UniquePtr<T[]> every array is released with delete[] and exactly
\* once: an array that a live wrapper owns, or that the caller holds after
\* release(), has not been deleted; every other array has been deleted once;
\* no array has two owners (a moved-from wrapper owns nothing, so its
\* destruction releases nothing).
C9_ArrayDeletedOnce ==
    uArray =>
        \A o \in 1 .. uAlloc :
            /\ uForm[o] \subseteq {"delete[]"}
            /\ Cardinality(UOwners(o)) <= 1
            /\ uDel[o] = IF UOwners(o) # {} \/ o \in uRaw THEN 0 ELSE 1

\* C9 witness: a was built from new T[n], b was move-constructed (from a: c
\* was never declared), both have been destroyed and the one array has been
\* deleted once, with delete[].
C9_Witness ==
    /\ uArray
    /\ uw["a"].by = "new" /\ uw["a"].st = "dead"
    /\ uw["b"].by = "move" /\ uw["b"].st = "dead"
    /\ uw["c"].st = "none"
    /\ uAlloc = 1 /\ uDel[1] = 1 /\ uForm[1] = {"delete[]"}

(***************************************************************************)
(* Properties of ResourceWrapper<Resource>                                 *)
(***************************************************************************)
\* C10: a Resource that a wrapper acquired is released exactly once when the
\* wrapper leaves its scope, normally or by an exception: no Resource is
\* destroyed twice, a Resource held by a live wrapper has not been destroyed,
\* and once the block is left every Resource has been destroyed once, except
\* those the caller took with release() and still holds.
C10_ReleasedOnceOnScopeExit ==
    \A r \in 1 .. rAlloc :
        /\ rClosed[r] <= 1
        /\ \A s \in RSlots : (RLive(s) /\ rw[s].res = r) => rClosed[r] = 0
        /\ scope = "done" => (rClosed[r] = 1 \/ (r \in rRaw /\ rClosed[r] = 0))

\* C10 witness: the block was left by the runtime_error thrown after the
\* acquisition, its wrapper is destroyed and its Resource was released once.
C10_Witness ==
    /\ scope = "done" /\ exc = "runtime_error"
    /\ rw["file1"].st = "dead" /\ rw["file2"].st = "none"
    /\ rAlloc = 1 /\ rClosed[1] = 1 /\ rRaw = {}

\* C11: constructing a ResourceWrapper with invalid arguments raises
\* std::invalid_argument and acquires nothing: next_fd_ has advanced only
\* by the successful acquisitions, instance_count_ counts only the Buffers
\* that were acquired and not yet destroyed, no destructor ever runs for an
\* object that was not acquired, and after the failed construction the
\* variable holds no wrapper and none is registered for destruction.
C11_InvalidArgsAcquireNothing ==
    /\ rNextFd = IF rKind = "FileHandle" THEN 1 + rAlloc ELSE 1
    /\ rInst = IF rKind = "Buffer"
               THEN Cardinality({r \in 1 .. rAlloc : rClosed[r] = 0})
               ELSE 0
    /\ \A r \in RObjs : r > rAlloc => rClosed[r] = 0
    /\ (rLast.op = "construct" /\ ~rLast.ok) =>
          /\ exc = "invalid_argument"
          /\ scope \in {"unwind", "done"}
          /\ rw[rLast.slot].st = "none"
          /\ \A i \in 1 .. Len(rOrder) : rOrder[i] # rLast.slot

\* C11 witness: file1 acquired a Resource, the construction of file2 with
\* invalid arguments threw, and the block was left: one fd / one instance
\* was ever taken and the one Resource was released.
C11_Witness ==
    /\ rLast.op = "construct" /\ ~rLast.ok /\ rLast.slot = "file2"
    /\ scope = "done" /\ exc = "invalid_argument"
    /\ rw["file1"].st = "dead" /\ rw["file2"].st = "none"
    /\ rAlloc = 1 /\ rClosed[1] = 1

\* C12 as documented: an operation that throws leaves the wrapper's state
\* unchanged: while the wrapper a failed operation ran on is still alive
\* it holds the Resource it held before the call, and that Resource has not
\* been destroyed.
C12_StrongGuarantee ==
    (~rLast.ok /\ RLive(rLast.slot)) =>
        /\ rw[rLast.slot].res = rLast.held
        /\ rLast.held # NoRes => (rClosed[rLast.held] = 0 /\ RIsValid(rLast.slot))

(***************************************************************************)
(* Properties of TrackedResource                                           *)
(***************************************************************************)
\* C13: for a type with both a copy and a move constructor, constructing
\* from a named non-const variable runs the copy constructor (copy counter
\* +1, move counter unchanged, source unchanged) and constructing from
\* std::move(x) of a non-const x runs the move constructor (move counter +1,
\* copy counter unchanged).
C13_CopyOrMoveConstruction ==
    [][(tLast'.kind = "construct" /\ tLast'.src # "none"
          /\ ~tObj[tLast'.src].cst) =>
        IF tLast'.form = "lvalue"
        THEN /\ tCount'.copy = tCount.copy + 1
             /\ tCount'.move = tCount.move
             /\ tObj'[tLast'.src] = tObj[tLast'.src]
        ELSE /\ tCount'.move = tCount.move + 1
             /\ tCount'.copy = tCount.copy]_vars

\* C13 witness: Tests 1 to 3 of main: obj1 constructed, obj2 = obj1 copied
\* it, obj3 = std::move(obj1) has just moved it: one copy, one move.
C13_Witness ==
    /\ tLast.kind = "construct" /\ tLast.form = "move"
    /\ tLast.dst = "obj3" /\ tLast.src = "obj1"
    /\ tOrder = <<"obj1", "obj2", "obj3">>
    /\ tObj["obj2"].id = 2 /\ tObj["obj3"].id = 1
    /\ tCount.copy = 1 /\ tCount.move = 1

\* C14: the source of a move construction or move assignment has id_ = -1
\* afterwards; a moved-from object is destroyed without a trace line, can be
\* moved from again (the target then carries -1 too), and after a copy or
\* move assignment from an object that is not moved-from it carries a
\* non-negative id again.  An object declared const is never moved-from.
C14_MovedFromInert ==
    /\ [](\A s \in TSlots :
             TLive(s) =>
                 /\ (tObj[s].id = MovedFrom \/ tObj[s].id >= 1)
                 /\ (tObj[s].cst => tObj[s].id >= 1))
    /\ [][
           /\ (tLast'.ran \in {"move_ctor", "move_assign"}) =>
                 (/\ tObj'[tLast'.src].id = MovedFrom
                  /\ tObj'[tLast'.dst].id = tObj[tLast'.src].id)
           /\ (tLast'.kind = "destroy" /\ tObj[tLast'.dst].id = MovedFrom) =>
                 ~tLast'.line
           /\ (tLast'.ran \in {"copy_assign", "move_assign"}
                 /\ tObj[tLast'.src].id # MovedFrom) =>
                 tObj'[tLast'.dst].id >= 1]_vars

\* C14 witness: obj1 was moved into obj2 (one move construction, no copy:
\* obj2 carries the only id issued until then) and has just been assigned
\* to by copy from obj2: it carries a valid id again.
C14_Witness ==
    /\ tLast.ran = "copy_assign" /\ tLast.dst = "obj1" /\ tLast.src = "obj2"
    /\ tCount = [copy |-> 0, move |-> 1, copy_assign |-> 1, move_assign |-> 0]
    /\ tObj["obj1"].id = 2 /\ tObj["obj2"].id = 1
    /\ tObj["obj3"].st = "none"

\* C15: constructing from std::move(c) with c const runs the copy
\* constructor: one copy and no move is counted, the new object takes its id
\* from next_id_ (which advances; the id differs from c's whenever c's id
\* is below next_id_), and c keeps its id.
C15_ConstMoveCopies ==
    [][(tLast'.kind = "construct" /\ tLast'.form = "move"
          /\ tObj[tLast'.src].cst) =>
        /\ tCount'.copy = tCount.copy + 1
        /\ tCount'.move = tCount.move
        /\ tObj'[tLast'.dst].id = tNextId
        /\ tNextId' = tNextId + 1
        /\ (tObj[tLast'.src].id < tNextId =>
              tObj'[tLast'.dst].id # tObj[tLast'.src].id)
        /\ tObj'[tLast'.src] = tObj[tLast'.src]
        /\ tObj[tLast'.src].id >= 1]_vars

\* C15 witness: Test 16 of main: const obj1, then obj2 = std::move(obj1):
\* one copy construction, no move, obj1 keeps id 1 and obj2 has id 2.
C15_Witness ==
    /\ tLast.kind = "construct" /\ tLast.form = "move"
    /\ tLast.dst = "obj2" /\ tLast.src = "obj1"
    /\ tObj["obj1"] = [st |-> "live", id |-> 1, cst |-> TRUE]
    /\ tObj["obj2"] = [st |-> "live", id |-> 2, cst |-> FALSE]
    /\ tCount = [copy |-> 1, move |-> 0, copy_assign |-> 0, move_assign |-> 0]

(***************************************************************************)
(* Properties of the virtual-inheritance hierarchies                       *)
(***************************************************************************)
\* the objects declared so far that the state still describes
VObjects == {vStack[i] : i \in 1 .. Len(vStack)} \cup ({vDone} \ {VNoObj})

\* the classes whose bodies ran, in order
VClassesOf(evs) == [i \in 1 .. Len(evs) |-> evs[i].cls]

VIsPrefix(p, q) == Len(p) <= Len(q) /\ p = SubSeq(q, 1, Len(p))

\* the constructor bodies of the counted root class that ran for object o
VRootEvents(o) == {i \in 1 .. Len(o.made) : o.made[i].cls = VRoot(o.cls)}

\* C16 as stated: for the classes over a virtual base (Final, Bat,
\* AdvancedBat) a declaration of one complete object runs the base
\* constructor exactly once: the declaration yields an object, the
\* instance counter has risen by exactly 1 when its construction ends and
\* has fallen by exactly 1 when its destruction ends.
C16_OneBasePerObject ==
    /\ vRejected \notin {"Final", "Bat", "AdvancedBat"}
    /\ \A o \in VObjects :
          o.cls \in {"Final", "Bat", "AdvancedBat"} =>
              /\ Cardinality(VRootEvents(o)) <= 1
              /\ o.phase \in {"alive", "destroying", "dead"} =>
                    (Cardinality(VRootEvents(o)) = 1 /\ o.cnt1 = o.cnt0 + 1)
              /\ o.phase = "dead" => o.cnt3 = o.cnt2 - 1

\* C17: for a Final object the constructor bodies run in the order Base,
\* Derived1, Derived2, Final and the destructor bodies in the reverse order
\* Final, Derived2, Derived1, Base: at every moment the bodies that have run
\* are a prefix of these orders, no destructor runs before the construction
\* is complete, and a living or destroyed object has run them all.
C17_FinalOrder ==
    \A o \in VObjects :
        o.cls = "Final" =>
            /\ VIsPrefix(VClassesOf(o.made),
                         <<"Base", "Derived1", "Derived2", "Final">>)
            /\ VIsPrefix(VClassesOf(o.gone),
                         <<"Final", "Derived2", "Derived1", "Base">>)
            /\ o.phase # "constructing" => Len(o.made) = 4
            /\ o.phase = "constructing" => o.gone = <<>>
            /\ o.phase = "dead" => Len(o.gone) = 4

\* C17 witness: a Final object has been constructed and destroyed
C17_Witness ==
    /\ vDone.cls = "Final" /\ vDone.phase = "dead"
    /\ VClassesOf(vDone.gone) = <<"Final", "Derived2", "Derived1", "Base">>

\* C18: the virtual base of a Final object is initialised by Final's
\* initialiser only: Base receives the name Final was given, and no Base
\* is constructed with name + "_D1" or name + "_D2"; these initialisers run
\* when Derived1 or Derived2 is the class of the complete object.
C18_VirtualBaseInitialiser ==
    \A o \in VObjects :
        \A i \in 1 .. Len(o.made) :
            o.made[i].cls = "Base" =>
                /\ o.cls = "Final" => o.made[i].name = o.name
                /\ o.cls = "Derived1" => o.made[i].name = o.name \o <<"_D1">>
                /\ o.cls = "Derived2" => o.made[i].name = o.name \o <<"_D2">>

\* C18 witness: a Final("Test") object is alive, its Base was constructed
\* as Base("Test"), and beneath it a Derived1("Test") object is alive whose
\* Base was constructed as Base("Test_D1").
C18_Witness ==
    /\ Len(vStack) = 2
    /\ vStack[1].cls = "Derived1" /\ vStack[1].phase = "alive"
    /\ vStack[1].made[1] = [cls |-> "Base", name |-> <<"Test", "_D1">>]
    /\ vStack[2].cls = "Final" /\ vStack[2].phase = "alive"
    /\ vStack[2].made[1] = [cls |-> "Base", name |-> <<"Test">>]

(***************************************************************************)
(* Properties of the moves and of release()                                *)
(***************************************************************************)
\* C19: after move-constructing or move-assigning b from a different
\* UniquePtr a (UniquePtr<T> or UniquePtr<T[]>), a is null (operator bool
\* false, get() nullptr) and b owns exactly the pointer a owned before; a
\* move assignment deletes the object b owned before exactly once and no
\* other object; no object ever has two owners.
C19_MoveTransfersOwnership ==
    /\ [](\A x \in 1 .. uAlloc : Cardinality(UOwners(x)) <= 1)
    /\ [][\A b \in USlots, a \in USlots :
            (a # b /\ (UMoveConstruct(b, a) \/ UMoveAssign(b, a))) =>
                /\ ULive(a)' /\ ~UBool(a)' /\ uw'[a].ptr = NullPtr
                /\ ULive(b)' /\ uw'[b].ptr = uw[a].ptr
                /\ \A x \in UObjs :
                      IF ULive(b) /\ uw[b].ptr = x
                      THEN uDel[x] = 0 /\ uDel'[x] = 1
                           /\ uForm'[x] = {DeleteForm}
                      ELSE uDel'[x] = uDel[x]]_vars

\* C19 witness: with UniquePtr<T>, a and b were each built from new T and
\* b = std::move(a) ran: a is null, b owns a's object and the object b owned
\* before has been deleted once.
C19_Witness ==
    /\ ~uArray
    /\ uw["a"] = [st |-> "live", ptr |-> NullPtr, by |-> "new"]
    /\ uw["b"] = [st |-> "live", ptr |-> 1, by |-> "new"]
    /\ uw["c"].st = "none"
    /\ uAlloc = 2 /\ uDel[1] = 0 /\ uDel[2] = 1 /\ uRaw = {}

\* C20: release() gives up ownership without destroying the resource, for
\* UniquePtr and for ResourceWrapper: the call hands the owned pointer to
\* the caller, leaves the wrapper empty (operator bool / is_valid() false)
\* and destroys nothing; as long as the caller holds the pointer the
\* resource is alive and no wrapper owns it, whatever is destroyed
\* meanwhile; only the caller's own delete releases it.
C20_ReleaseKeepsResourceAlive ==
    /\ [](/\ \A x \in uRaw : uDel[x] = 0 /\ UOwners(x) = {}
          /\ \A r \in rRaw :
                /\ rClosed[r] = 0
                /\ \A s \in RSlots : ~(RLive(s) /\ rw[s].res = r)
          /\ rLast.op = "release" =>
                /\ ~RIsValid(rLast.slot)
                /\ rw[rLast.slot].res = NoRes
                /\ rLast.held # NoRes => rLast.held \in rRaw
          /\ rLast.op = "delete" => rClosed[rLast.held] = 1)
    /\ [][/\ \A s \in USlots :
               URelease(s) =>
                   /\ ~UBool(s)'
                   /\ uDel' = uDel
                   /\ uRaw' = uRaw \cup ({uw[s].ptr} \ {NullPtr})
           /\ \A x \in uRaw :
               uDel'[x] # uDel[x] => (UCallerDelete(x) /\ uDel'[x] = 1)
           /\ \A r \in rRaw :
               rClosed'[r] # rClosed[r] =>
                   (rLast'.op = "delete" /\ rLast'.held = r)]_vars

\* C20 witness: a ResourceWrapper acquired a Resource, release() handed it
\* to the caller, the block was left and the wrapper destroyed: the
\* Resource is still alive in the caller's hands.
C20_Witness ==
    /\ scope = "done"
    /\ rw["file1"].st = "dead" /\ rw["file2"].st = "none"
    /\ rLast.op = "release" /\ rLast.slot = "file1" /\ rLast.held = 1
    /\ rRaw = {1} /\ rClosed[1] = 0

(***************************************************************************)
(* Properties of the ResourceWrapper moves                                 *)
(***************************************************************************)
\* what is released around a move: a move construction releases nothing, a
\* move assignment to b releases the Resource b held before, once, and no
\* other
RMoveReleases(b) ==
    \A r \in RObjs :
        IF RLive(b) /\ rw[b].res = r
        THEN rClosed[r] = 0 /\ rClosed'[r] = 1
        ELSE rClosed'[r] = rClosed[r]

\* by the time the wrappers of the block are destroyed every Resource has
\* been released exactly once, except those the caller took with release()
RAllReleasedOnce ==
    /\ \A r \in 1 .. rAlloc : rClosed[r] <= 1
    /\ scope = "done" =>
          \A r \in 1 .. rAlloc : rClosed[r] = IF r \in rRaw THEN 0 ELSE 1

\* C21: after move-constructing or move-assigning ResourceWrapper b from a
\* different wrapper a, a.is_valid() is false and b holds exactly the
\* resource a held; b.is_valid() is true exactly when a held a resource (a
\* moved-from or released a leaves b empty); a move assignment releases the
\* resource b held before exactly once; every resource is released exactly
\* once by the time both wrappers are destroyed.
C21_MoveTransfersResource ==
    /\ []RAllReleasedOnce
    /\ [][\A b \in RSlots, a \in RSlots :
            (a # b /\ (RMoveConstruct(b, a) \/ RMoveAssign(b, a))) =>
                /\ RLive(a)' /\ ~RIsValid(a)'
                /\ RLive(b)' /\ rw'[b].res = rw[a].res
                /\ (RIsValid(b)' <=> (rw[a].res # NoRes))
                /\ RMoveReleases(b)]_vars

\* C21 witness: file1 and file2 each acquired a Resource, file2 =
\* std::move(file1) ran and the block was left: both wrappers are destroyed
\* and both Resources have been released once.
C21_Witness ==
    /\ scope = "done" /\ exc = "none"
    /\ rLast = [op |-> "move_assign", slot |-> "file2", held |-> 2, ok |-> TRUE]
    /\ rw["file1"].st = "dead" /\ rw["file2"].st = "dead"
    /\ rw["file2"].res = 1
    /\ rAlloc = 2 /\ rClosed[1] = 1 /\ rClosed[2] = 1 /\ rRaw = {}

\* C21 as stated: b.is_valid() is true after every move from a different
\* wrapper.
C21_Original ==
    /\ []RAllReleasedOnce
    /\ [][\A b \in RSlots, a \in RSlots :
            (a # b /\ (RMoveConstruct(b, a) \/ RMoveAssign(b, a))) =>
                /\ RLive(a)' /\ ~RIsValid(a)'
                /\ RLive(b)' /\ rw'[b].res = rw[a].res
                /\ RIsValid(b)'
                /\ RMoveReleases(b)]_vars

(***************************************************************************)
(* Properties of self move-assignment                                      *)
(***************************************************************************)
\* C22: x = std::move(x) is a no-op for ResourceWrapper, ResourceManager,
\* UniquePtr, FileHandle and Buffer: every field of the object, every
\* other object, what has been released and every counter (next_fd_,
\* instance_count_, the allocation counts) are as before, so the object
\* still owns the same resource and is_valid() / valid() / operator bool
\* report what they reported before.
C22_SelfMoveAssignNoOp ==
    [][/\ \A x \in RSlots :
            RMoveAssign(x, x) =>
                /\ UNCHANGED <<rKind, rw, rOrder, rAlloc, rClosed, rNextFd,
                               rInst, rRaw, scope, exc>>
                /\ (RIsValid(x)' <=> RIsValid(x))
       /\ \A x \in MSlots :
            MMoveAssign(x, x) => (UNCHANGED mvars /\ (MValid(x)' <=> MValid(x)))
       /\ \A x \in USlots :
            UMoveAssign(x, x) => (UNCHANGED uvars /\ (UBool(x)' <=> UBool(x)))
       /\ \A x \in FSlots :
            FMoveAssign(x, x) => (UNCHANGED fvars /\ (FValid(x)' <=> FValid(x)))
       /\ \A x \in BSlots :
            BMoveAssign(x, x) => UNCHANGED bvars]_vars

\* C22 witness: file1 and file2 acquired a Resource each, file2 =
\* std::move(file1) and then file2 = std::move(file2) ran: file2 still
\* holds the Resource it held before the self-assignment and is valid, and
\* that Resource has not been released.
C22_Witness ==
    /\ rLast = [op |-> "move_assign", slot |-> "file2", held |-> 1, ok |-> TRUE]
    /\ rw["file1"] = [st |-> "live", res |-> NoRes]
    /\ rw["file2"] = [st |-> "live", res |-> 1]
    /\ RIsValid("file2")
    /\ rAlloc = 2 /\ rClosed[1] = 0 /\ rClosed[2] = 1

(***************************************************************************)
(* Properties of test_concurrent_stress                                    *)
(***************************************************************************)
SAllDone == \A t \in StressThreads : sPhase[t] = "done"

\* C23: in the stress scenario every thread terminates under fair
\* scheduling, and at termination total_produced = total_consumed = n * k
\* (n threads, k = items_per_thread) and the queue is empty.
C23_StressTerminates ==
    /\ <>SAllDone
    /\ [](SAllDone =>
            /\ total_produced = Cardinality(StressThreads) * ItemsPerThread
            /\ total_consumed = Cardinality(StressThreads) * ItemsPerThread
            /\ Len(queue_) = 0)

\* C23 witness: both threads have returned, all items were produced and
\* consumed, and the first item removed was one t2 pushed.
C23_Witness ==
    /\ SAllDone
    /\ total_produced = Cardinality(StressThreads) * ItemsPerThread
    /\ total_consumed = total_produced
    /\ queue_ = <<>>
    /\ removed[1] = SIndex["t2"] * ItemsPerThread

(***************************************************************************)
(* Properties of UniquePtr::reset and of single ownership                  *)
(***************************************************************************)
\* reset(p) on wrapper s with p different from the pointer it owns: the
\* object owned before, if any, is deleted exactly once, with the delete
\* form of the template; nothing else is deleted; s owns p afterwards
UResetReplaces(s, p) ==
    /\ uw'[s].ptr = p
    /\ uw'[s].st = "live"
    /\ \A x \in UObjs :
          IF x = uw[s].ptr
          THEN uDel[x] = 0 /\ uDel'[x] = 1 /\ uForm'[x] = {DeleteForm}
          ELSE uDel'[x] = uDel[x] /\ uForm'[x] = uForm[x]

\* C24: reset(p) with p different from the owned pointer deletes the
\* previously owned object exactly once (delete for UniquePtr<T>, delete[]
\* for UniquePtr<T[]>) and then owns p; reset() leaves the wrapper null;
\* reset(p) with p equal to the pointer already owned deletes nothing and
\* changes nothing.
C24_Reset ==
    [][\A s \in USlots :
          /\ UResetNew(s) => UResetReplaces(s, uAlloc + 1)
          /\ \A r \in UObjs : UResetRaw(s, r) => UResetReplaces(s, r)
          /\ UResetNull(s) =>
                /\ ~UBool(s)'
                /\ IF uw[s].ptr # NullPtr
                   THEN UResetReplaces(s, NullPtr)
                   ELSE UNCHANGED uvars
          /\ UResetSelf(s) => UNCHANGED uvars]_vars

\* C24 witness: UniquePtr<T> a(new T); a.reset(new T): the first object has
\* been deleted once with delete, and a owns the second, which is alive.
C24_Witness ==
    /\ ~uArray
    /\ uw["a"] = [st |-> "live", ptr |-> 2, by |-> "new"]
    /\ uw["b"].st = "none" /\ uw["c"].st = "none"
    /\ uAlloc = 2 /\ uRaw = {}
    /\ uDel[1] = 1 /\ uForm[1] = {"delete"} /\ uDel[2] = 0

(***************************************************************************)
(* Properties of ResourceManager                                           *)
(***************************************************************************)
\* the live ResourceManager variables whose buffer_ is x
MOwners(x) == {s \in MSlots : MLive(s) /\ mObj[s].buf = x}

\* every allocated buffer has at most one owner, is not freed while it is
\* owned and has been freed exactly once as soon as nothing owns it (so
\* also when every variable has been destroyed)
MFreedOnce ==
    \A x \in 1 .. mAlloc :
        /\ Cardinality(MOwners(x)) <= 1
        /\ mFreed[x] = IF MOwners(x) # {} THEN 0 ELSE 1

\* a move to b from a different a: a is left invalid with size 0, b has a's
\* former buffer and size, a move assignment frees the buffer b held
\* before exactly once and nothing else is freed
MMoveEffect(b, a) ==
    /\ MLive(a)' /\ ~MValid(a)' /\ mObj'[a].size = 0
    /\ MLive(b)'
    /\ mObj'[b].buf = mObj[a].buf /\ mObj'[b].size = mObj[a].size
    /\ \A x \in MBufs :
          IF MLive(b) /\ mObj[b].buf = x
          THEN mFreed[x] = 0 /\ mFreed'[x] = 1
          ELSE mFreed'[x] = mFreed[x]

\* C25: after move-constructing or move-assigning ResourceManager b from a
\* different manager a, a.valid() is false and a.size() is 0 and b has a's
\* former buffer and size; b.valid() is true exactly when a was valid (a
\* moved-from a leaves b invalid too); move assignment frees b's previous
\* buffer exactly once; over any sequence of such moves followed by
\* destruction every allocated buffer is freed exactly once.
C25_ManagerMove ==
    /\ []MFreedOnce
    /\ [][\A b \in MSlots, a \in MSlots :
            (a # b /\ (MMoveConstruct(b, a) \/ MMoveAssign(b, a))) =>
                /\ MMoveEffect(b, a)
                /\ (MValid(b)' <=> MValid(a))]_vars

\* C25 witness: rm1(10); rm2 = std::move(rm1); rm3(5); rm3 = std::move(rm2)
\* as in Test 4: rm1 and rm2 are invalid with size 0, rm3 has rm1's buffer
\* and size, and the buffer rm3 allocated has been freed once.
C25_Witness ==
    /\ mObj["rm1"] = [st |-> "live", size |-> 0, buf |-> 0]
    /\ mObj["rm2"] = [st |-> "live", size |-> 0, buf |-> 0]
    /\ mObj["rm3"] = [st |-> "live", size |-> 10, buf |-> 1]
    /\ mOrder = <<"rm1", "rm2", "rm3">>
    /\ mAlloc = 2 /\ mFreed[1] = 0 /\ mFreed[2] = 1

\* C25 as stated: b.valid() is true after every move from a different
\* manager.
C25_Original ==
    /\ []MFreedOnce
    /\ [][\A b \in MSlots, a \in MSlots :
            (a # b /\ (MMoveConstruct(b, a) \/ MMoveAssign(b, a))) =>
                /\ MMoveEffect(b, a)
                /\ MValid(b)']_vars

(***************************************************************************)
(* Properties of FixedArray<T, N>                                          *)
(***************************************************************************)
\* C26: at(index) throws std::out_of_range exactly when index >= N and
\* otherwise returns the element at that index, the same element
\* operator[] returns; a failed at() leaves the array contents unchanged
\* (so does a successful one).
C26_At ==
    /\ aRes.op = "at" =>
          /\ aRes.threw <=> aRes.index >= aN
          /\ ~aRes.threw =>
                /\ aRes.elem = aRes.index + 1
                /\ aRes.elem \in 1 .. aN
          /\ data_ = aRes.before
    /\ aRes.op = "index" => aRes.elem = aRes.index + 1

\* C26 witness: at(N) was called on a FixedArray<int, 3> built from a list
\* and threw; the contents are as before.
C26_Witness ==
    /\ aN = 3 /\ aBuilt
    /\ aList = <<1, 2, 1>>
    /\ aRes.op = "at" /\ aRes.index = 3 /\ aRes.threw
    /\ aRes.before = <<1, 2, 1>> /\ data_ = <<1, 2, 1>>

\* C27: constructing FixedArray<T, N> from an initializer list of length m
\* sets element i to the i-th list value for every i < min(m, N), sets
\* every element with m <= i < N to T{}, and ignores the list values
\* beyond the N-th without writing outside the array.
C27_InitializerList ==
    aRes.op = "list" =>
        /\ Len(data_) = aN
        /\ \A j \in 1 .. aN :
              data_[j] = IF j <= Len(aList) THEN aList[j] ELSE TDefault
        /\ ~aOverrun

\* C27 witness: FixedArray<int, 2> built from a list of 4 values: the first
\* two are stored, the others ignored.
C27_Witness ==
    /\ aN = 2 /\ aRes.op = "list"
    /\ aList = <<1, 2, 2, 1>>
    /\ data_ = <<1, 2>>
    /\ ~aOverrun

\* the operations of wrapper s that can delete the object it owns
UDeletingOp(s) ==
    \/ UDestroy(s) \/ UResetNull(s) \/ UResetNew(s)
    \/ \E r \in UObjs : UResetRaw(s, r)
    \/ \E o \in USlots : UMoveAssign(s, o)

\* C28: single ownership holds for UniquePtr after any sequence of
\* construction from a fresh allocation, move construction, move
\* assignment, reset, release and destruction: at every point each
\* allocated object is owned by at most one UniquePtr and an owned object
\* has not been deleted; no object is deleted twice; an object is deleted
\* only by an operation of the wrapper that owns it at that moment (or,
\* after release(), by the caller who holds it), and that wrapper does not
\* own it afterwards.
C28_SingleOwnership ==
    /\ [](\A x \in 1 .. uAlloc :
            /\ Cardinality(UOwners(x)) <= 1
            /\ uDel[x] <= 1
            /\ UOwners(x) # {} => (uDel[x] = 0 /\ x \notin uRaw))
    /\ [][\A x \in UObjs :
            uDel'[x] # uDel[x] =>
                /\ uDel[x] = 0
                /\ \/ x \in uRaw /\ UCallerDelete(x)
                   \/ \E s \in UOwners(x) :
                         UDeletingOp(s) /\ ~(ULive(s)' /\ uw'[s].ptr = x)]_vars

\* C28 witness: a(new T); b(std::move(a)); c(new T); c = std::move(b): the
\* first object went from a to b to c and is alive with c as its only
\* owner; the second was deleted once, by c.
C28_Witness ==
    /\ uw["a"] = [st |-> "live", ptr |-> NullPtr, by |-> "new"]
    /\ uw["b"] = [st |-> "live", ptr |-> NullPtr, by |-> "move"]
    /\ uw["c"] = [st |-> "live", ptr |-> 1, by |-> "new"]
    /\ UOwners(1) = {"c"}
    /\ uAlloc = 2 /\ uDel[1] = 0 /\ uDel[2] = 1 /\ uRaw = {}

(***************************************************************************)
(* Properties of Buffer                                                    *)
(***************************************************************************)
\* the live Buffer variables that own a data block
BOwning == {s \in BSlots : BLive(s) /\ bObj[s].data # 0}

\* C29: Buffer::instance_count_ always equals the number of live Buffer
\* objects that own a non-null data block, after any sequence of
\* construction, copy construction, copy assignment, move construction,
\* move assignment, swap and destruction, moved-from sources and targets
\* included.
C29_InstanceCount == bInst = Cardinality(BOwning)

\* C29 witness: buf1(8); buf2(std::move(buf1)); buf3(buf1), a copy of the
\* moved-from buf1: two variables own nothing, one owns a block, and
\* instance_count_ is 1.
C29_Witness ==
    /\ bObj["buf1"] = [st |-> "live", size |-> 0, data |-> 0]
    /\ bObj["buf2"] = [st |-> "live", size |-> 8, data |-> 1]
    /\ bObj["buf3"] = [st |-> "live", size |-> 0, data |-> 0]
    /\ bOrder = <<"buf1", "buf2", "buf3">>
    /\ bAlloc = 1 /\ bInst = 1

(***************************************************************************)
(* Properties of the TrackedResource ids                                   *)
(***************************************************************************)
\* C30 as documented: the id_ values identify objects uniquely: at every
\* point of a run, calls of resetCounters() included, no two live
\* TrackedResource objects that are not moved-from carry the same id_.
C30_UniqueIds ==
    \A s \in TSlots, o \in TSlots :
        (s # o /\ TLive(s) /\ TLive(o) /\ tObj[s].id # MovedFrom) =>
            tObj[s].id # tObj[o].id

====
